---------------------------- MODULE Spec2Model ----------------------------
(* A model of the five-stage C compiler pipeline of this repository:        *)
(* lexer.py, parser.py, semantic_analyzer.py,                               *)
(* intermediate_code.py, code_generator.py and the driver compiler.py.      *)
(*                                                                          *)
(* Python strings are modelled as sequences of one-character strings, so    *)
(* that scanning, splitting, substring tests and name formatting are        *)
(* computed as the code computes them.  None is modelled by NoChar for a    *)
(* character and by the record None for an object.                          *)
EXTENDS Integers, Sequences, FiniteSets, TLC

VARIABLES
    \* ---- Lexer (lexer.py) ----
    source,            \* Lexer.source
    position,          \* Lexer.position (0-based)
    line,              \* Lexer.line
    column,            \* Lexer.column
    tokens,            \* Lexer.tokens
    lexState,          \* "idle" | "running" | "returned" | "raised"
    lexError,          \* the SyntaxError raised by Lexer.error, or None
    \* ---- the Program handed to the later stages (parser.py) ----
    ast,               \* Program.declarations
    \* ---- Semantic analyzer (semantic_analyzer.py) ----
    analyzer,          \* the SemanticAnalyzer and its SymbolTable
    semIdx,            \* declarations visit_program has visited
    semState,          \* "idle" | "walking" | "returned" | "raised"
    semRaised,         \* the SemanticError analyze raised, or None
    opened,            \* per frame of the SymbolTable: the label it was entered with
                       \* and the frames that were below it at that time
    tableCall,         \* the last call a client made on a SymbolTable of its own
    \* ---- IR generator (intermediate_code.py) ----
    irgen,             \* the IntermediateCodeGenerator
    irIdx,             \* declarations visit_program has lowered
    \* ---- Code generator (code_generator.py) ----
    codegen,           \* the CodeGenerator
    cgIdx,             \* TAC instructions generate has translated
    genState,          \* "idle" | "ir" | "codegen" | "generated" | "optimized"
    optimizations_made, \* the count optimize reports
    \* ---- Parser (parser.py) and the driver compile_c_code (compiler.py) ----
    parseState,        \* "idle" | "running" | "returned" | "raised"
    parseError,        \* the SyntaxError raised by Parser.error, or None
    current,           \* Parser.position: the index of the current token (0-based)
    show_stages,       \* the argument of compile_c_code
    drvState,          \* "idle" | "running" | "returned" | "propagated"
    handler,           \* the except clause that ran: "none" | "SyntaxError" | "Exception"
    returnValue        \* what compile_c_code returned, once drvState = "returned"

lexVars == <<source, position, line, column, tokens, lexState, lexError>>

semVars == <<analyzer, semIdx, semState, semRaised, opened, tableCall>>

genVars == <<irgen, irIdx, codegen, cgIdx, genState, optimizations_made>>

drvVars == <<parseState, parseError, current, show_stages, drvState, handler, returnValue>>

vars == <<lexVars, ast, semVars, genVars, drvVars>>

--------------------------------------------------------------------------
(* Bounds of the model *)

\* longest source string handed to the lexer
MaxSrcLen == 4

\* most frames on the scope stack of a SymbolTable driven on its own
MaxFrames == 3

\* most calls made on a SymbolTable driven on its own
MaxCalls == 5

\* deepest nesting of statements in the programs handed to the later stages
MaxNest == 1

--------------------------------------------------------------------------
(* Python values *)

None == [kind |-> "None"]

\* Python's None where the other values are strings (strings are sequences
\* of one-character strings, which this sequence is not)
NoneStr == <<"None">>

NoChar == ""

\* a Python string as the sequence of its characters
Chars(s) == [i \in 1..Len(s) |-> SubSeq(s, i, i)]

\* the characters the lexer specification draws source strings from
SrcAlphabet == {" ", "\n", "/", "*", "1", ".", "a", "\"", "\\", "=", "@"}

Digits == {"0", "1", "2", "3", "4", "5", "6", "7", "8", "9"}

Letters == {"a", "b", "c", "d", "e", "f", "g", "h", "i", "j", "k", "l", "m",
            "n", "o", "p", "q", "r", "s", "t", "u", "v", "w", "x", "y", "z",
            "A", "B", "C", "D", "E", "F", "G", "H", "I", "J", "K", "L", "M",
            "N", "O", "P", "Q", "R", "S", "T", "U", "V", "W", "X", "Y", "Z"}

\* str.isdigit / str.isalpha / str.isalnum on one character
IsDigit(ch) == ch \in Digits

IsAlpha(ch) == ch \in Letters

IsAlnum(ch) == IsDigit(ch) \/ IsAlpha(ch)

\* ch in ' \t\r\n'
IsSpace(ch) == ch \in {" ", "\t", "\r", "\n"}

--------------------------------------------------------------------------
(* Lexer: src/lexer.py *)

KEYWORDS ==
    ( <<"i","n","t">> :> "INT" ) @@
    ( <<"f","l","o","a","t">> :> "FLOAT" ) @@
    ( <<"c","h","a","r">> :> "CHAR" ) @@
    ( <<"i","f">> :> "IF" ) @@
    ( <<"e","l","s","e">> :> "ELSE" ) @@
    ( <<"w","h","i","l","e">> :> "WHILE" ) @@
    ( <<"f","o","r">> :> "FOR" ) @@
    ( <<"r","e","t","u","r","n">> :> "RETURN" ) @@
    ( <<"v","o","i","d">> :> "VOID" )

\* KEYWORDS.get(identifier, TokenType.IDENTIFIER)
KeywordOrIdentifier(identifier) ==
    IF identifier \in DOMAIN KEYWORDS THEN KEYWORDS[identifier] ELSE "IDENTIFIER"

two_char_tokens ==
    ( <<"=","=">> :> "EQUAL" ) @@
    ( <<"!","=">> :> "NOT_EQUAL" ) @@
    ( <<"<","=">> :> "LESS_EQUAL" ) @@
    ( <<">","=">> :> "GREATER_EQUAL" ) @@
    ( <<"&","&">> :> "LOGICAL_AND" ) @@
    ( <<"|","|">> :> "LOGICAL_OR" )

single_char_tokens ==
    ( "+" :> "PLUS" ) @@ ( "-" :> "MINUS" ) @@ ( "*" :> "MULTIPLY" ) @@
    ( "/" :> "DIVIDE" ) @@ ( "%" :> "MODULO" ) @@ ( "=" :> "ASSIGN" ) @@
    ( "<" :> "LESS_THAN" ) @@ ( ">" :> "GREATER_THAN" ) @@
    ( "!" :> "LOGICAL_NOT" ) @@ ( ";" :> "SEMICOLON" ) @@ ( "," :> "COMMA" ) @@
    ( "(" :> "LPAREN" ) @@ ( ")" :> "RPAREN" ) @@ ( "{" :> "LBRACE" ) @@
    ( "}" :> "RBRACE" ) @@ ( "[" :> "LBRACKET" ) @@ ( "]" :> "RBRACKET" )

Token(type, value, l, c) == [type |-> type, value |-> value, line |-> l, column |-> c]

\* the scanning position of a Lexer: (position, line, column)
Cursor(p, l, c) == [position |-> p, line |-> l, column |-> c]

current_char(src, cur) ==
    IF cur.position >= Len(src) THEN NoChar ELSE src[cur.position + 1]

peek_char(src, cur) ==
    IF cur.position + 1 >= Len(src) THEN NoChar ELSE src[cur.position + 2]

\* a variant of advance that forgets to count the line at a newline
AdvanceKeepsLine(src, cur) ==
    IF cur.position < Len(src)
    THEN IF src[cur.position + 1] = "\n"
         THEN Cursor(cur.position + 1, cur.line, 1)
         ELSE Cursor(cur.position + 1, cur.line, cur.column + 1)
    ELSE cur

\* (the cursor is read once, into c, and the result is built from c)
advance(src, cur) ==
    CHOOSE next \in
        {IF c.position < Len(src)
         THEN IF src[c.position + 1] = "\n"
              THEN Cursor(c.position + 1, c.line + 1, 1)
              ELSE Cursor(c.position + 1, c.line, c.column + 1)
         ELSE c : c \in {cur}} : TRUE

RECURSIVE skip_whitespace(_, _)
skip_whitespace(src, cur) ==
    IF current_char(src, cur) # NoChar /\ IsSpace(current_char(src, cur))
    THEN skip_whitespace(src, advance(src, cur))
    ELSE cur

\* while self.current_char() and self.current_char() != '\n': self.advance()
RECURSIVE SkipToNewline(_, _)
SkipToNewline(src, cur) ==
    IF current_char(src, cur) # NoChar /\ current_char(src, cur) # "\n"
    THEN SkipToNewline(src, advance(src, cur))
    ELSE cur

\* the while loop of the multi-line branch of skip_comment
RECURSIVE SkipToCommentEnd(_, _)
SkipToCommentEnd(src, cur) ==
    IF current_char(src, cur) = NoChar THEN cur
    ELSE IF current_char(src, cur) = "*" /\ peek_char(src, cur) = "/"
         THEN advance(src, advance(src, cur))
         ELSE SkipToCommentEnd(src, advance(src, cur))

\* a skip_comment that leaves the comment where it is
SkipNothing(src, cur) == cur

skip_comment(src, cur) ==
    IF current_char(src, cur) = "/" /\ peek_char(src, cur) = "/"
    THEN advance(src, SkipToNewline(src, cur))
    ELSE IF current_char(src, cur) = "/" /\ peek_char(src, cur) = "*"
         THEN SkipToCommentEnd(src, advance(src, advance(src, cur)))
         ELSE cur

\* the loop of read_number; error = TRUE when a second '.' makes it raise,
\* with cur the position at which Lexer.error is called
RECURSIVE ReadNumberLoop(_, _, _, _)
ReadNumberLoop(src, cur, num_str, is_float) ==
    LET ch == current_char(src, cur) IN
    IF ch # NoChar /\ (IsDigit(ch) \/ ch = ".")
    THEN IF ch = "." /\ is_float
         THEN [cur |-> cur, str |-> num_str, is_float |-> is_float, error |-> TRUE]
         ELSE ReadNumberLoop(src, advance(src, cur), Append(num_str, ch),
                             is_float \/ ch = ".")
    ELSE [cur |-> cur, str |-> num_str, is_float |-> is_float, error |-> FALSE]

read_number(src, cur) ==
    LET r == ReadNumberLoop(src, cur, <<>>, FALSE) IN
    [cur |-> r.cur, error |-> r.error,
     token |-> Token(IF r.is_float THEN "FLOAT_LITERAL" ELSE "INTEGER_LITERAL",
                     r.str, cur.line, cur.column)]

RECURSIVE ReadIdentifierLoop(_, _, _)
ReadIdentifierLoop(src, cur, identifier) ==
    LET ch == current_char(src, cur) IN
    IF ch # NoChar /\ (IsAlnum(ch) \/ ch = "_")
    THEN ReadIdentifierLoop(src, advance(src, cur), Append(identifier, ch))
    ELSE [cur |-> cur, str |-> identifier]

read_identifier(src, cur) ==
    LET r == ReadIdentifierLoop(src, cur, <<>>) IN
    [cur |-> r.cur, error |-> FALSE,
     token |-> Token(KeywordOrIdentifier(r.str), r.str, cur.line, cur.column)]

RECURSIVE ReadStringLoop(_, _, _)
ReadStringLoop(src, cur, string) ==
    LET ch == current_char(src, cur) IN
    IF ch # NoChar /\ ch # "\""
    THEN IF ch = "\\" /\ peek_char(src, cur) = "\""
         THEN ReadStringLoop(src, advance(src, advance(src, cur)), Append(string, "\""))
         ELSE ReadStringLoop(src, advance(src, cur), Append(string, ch))
    ELSE [cur |-> cur, str |-> string]

read_string(src, cur) ==
    LET r == ReadStringLoop(src, advance(src, cur), <<>>) IN
    IF current_char(src, r.cur) = NoChar
    THEN [cur |-> r.cur, error |-> TRUE,
          token |-> Token("STRING_LITERAL", r.str, cur.line, cur.column)]
    ELSE [cur |-> advance(src, r.cur), error |-> FALSE,
          token |-> Token("STRING_LITERAL", r.str, cur.line, cur.column)]

\* the SyntaxError built by Lexer.error at the current line and column
LexicalError(cur, message) ==
    [kind |-> "SyntaxError", line |-> cur.line, column |-> cur.column,
     message |-> message]

\* a variant of the end of tokenize that appends a NEWLINE token instead
EofTokenAsNewline(cur) == Token("NEWLINE", <<>>, cur.line, cur.column)

\* the EOF token appended at the end of tokenize
EofToken(cur) == Token("EOF", <<>>, cur.line, cur.column)

\* One iteration of the main loop of tokenize on lexer state
\* lx = [cur, tokens, state, error]; state "running" continues the loop.
TokenizeStep(src, lx) ==
    LET c0 == lx.cur
        c1 == skip_whitespace(src, c0)
        ch == current_char(src, c1)
        nx == peek_char(src, c1)
        two == <<ch, nx>>
        Read(r, message) ==
            IF r.error
            THEN [cur |-> r.cur, tokens |-> lx.tokens, state |-> "raised",
                  error |-> LexicalError(r.cur, message)]
            ELSE [cur |-> r.cur, tokens |-> Append(lx.tokens, r.token),
                  state |-> "running", error |-> None]
    IN
    IF current_char(src, c0) = NoChar \/ ch = NoChar
    THEN \* loop condition false, or break after skip_whitespace: append EOF
         [cur |-> c1, tokens |-> Append(lx.tokens, EofToken(c1)),
          state |-> "returned", error |-> None]
    ELSE IF ch = "/" /\ nx \in {"/", "*"}
    THEN [cur |-> skip_comment(src, c1), tokens |-> lx.tokens,
          state |-> "running", error |-> None]
    ELSE IF IsDigit(ch)
    THEN Read(read_number(src, c1), "Invalid number format")
    ELSE IF IsAlpha(ch) \/ ch = "_"
    THEN Read(read_identifier(src, c1), "")
    ELSE IF ch = "\""
    THEN Read(read_string(src, c1), "Unterminated string literal")
    ELSE IF nx # NoChar /\ two \in DOMAIN two_char_tokens
    THEN [cur |-> advance(src, advance(src, c1)),
          tokens |-> Append(lx.tokens, Token(two_char_tokens[two], two, c1.line, c1.column)),
          state |-> "running", error |-> None]
    ELSE IF ch \in DOMAIN single_char_tokens
    THEN [cur |-> advance(src, c1),
          tokens |-> Append(lx.tokens, Token(single_char_tokens[ch], <<ch>>, c1.line, c1.column)),
          state |-> "running", error |-> None]
    ELSE [cur |-> c1, tokens |-> lx.tokens, state |-> "raised",
          error |-> LexicalError(c1, "Unexpected character")]

--------------------------------------------------------------------------
(* AST node classes: src/parser.py *)

\* Program(declarations) is the sequence of its declarations
FunctionDecl(return_type, name, parameters, body) ==
    [kind |-> "FunctionDecl", return_type |-> return_type, name |-> name,
     parameters |-> parameters, body |-> body]

VarDecl(var_type, name, initializer) ==
    [kind |-> "VarDecl", var_type |-> var_type, name |-> name,
     initializer |-> initializer]

Parameter(param_type, name) ==
    [kind |-> "Parameter", param_type |-> param_type, name |-> name]

CompoundStmt(statements) == [kind |-> "CompoundStmt", statements |-> statements]

ExpressionStmt(expression) == [kind |-> "ExpressionStmt", expression |-> expression]

ReturnStmt(expression) == [kind |-> "ReturnStmt", expression |-> expression]

IfStmt(condition, then_stmt, else_stmt) ==
    [kind |-> "IfStmt", condition |-> condition, then_stmt |-> then_stmt,
     else_stmt |-> else_stmt]

WhileStmt(condition, body) ==
    [kind |-> "WhileStmt", condition |-> condition, body |-> body]

ForStmt(init, condition, update, body) ==
    [kind |-> "ForStmt", init |-> init, condition |-> condition,
     update |-> update, body |-> body]

BinaryOp(operator, left, right) ==
    [kind |-> "BinaryOp", operator |-> operator, left |-> left, right |-> right]

UnaryOp(operator, operand) ==
    [kind |-> "UnaryOp", operator |-> operator, operand |-> operand]

Identifier(name) == [kind |-> "Identifier", name |-> name]

\* value is the literal's text as str(node.value) prints it
IntLiteral(value) == [kind |-> "IntLiteral", value |-> value]

FloatLiteral(value) == [kind |-> "FloatLiteral", value |-> value]

StringLiteral(value) == [kind |-> "StringLiteral", value |-> value]

FunctionCall(name, arguments) ==
    [kind |-> "FunctionCall", name |-> name, arguments |-> arguments]

Assignment(target, value) ==
    [kind |-> "Assignment", target |-> target, value |-> value]

--------------------------------------------------------------------------
(* String helpers *)

\* s.startswith(prefix)
StartsWith(s, prefix) ==
    Len(s) >= Len(prefix) /\ SubSeq(s, 1, Len(prefix)) = prefix

\* needle in s
Contains(s, needle) ==
    \E i \in 0..(Len(s) - Len(needle)) : SubSeq(s, i + 1, i + Len(needle)) = needle

\* s.split(":", 1)[1] for an s that holds a ':'
AfterFirstColon(s) ==
    LET i == CHOOSE k \in 1..Len(s) : s[k] = ":" /\ \A j \in 1..(k - 1) : s[j] # ":"
    IN SubSeq(s, i + 1, Len(s))

--------------------------------------------------------------------------
(* Semantic analyzer: src/semantic_analyzer.py *)

Symbol(name, symbol_type, scope) == [name |-> name, type |-> symbol_type, scope |-> scope]

SemanticError(message) == [kind |-> "SemanticError", message |-> message]

\* The analyzer's fields as one record st:
\*   scopes, current_scope                (SymbolTable)
\*   current_function_return_type, errors (SemanticAnalyzer)
\*   exc      the exception propagating up the call stack, or None
\*   visited  number of declarations and statements visited so far
\*   entered, exited  number of enter_scope and exit_scope calls so far
\*   resolved the uses of a name the walk has looked up and found, in order
SemFresh ==
    [scopes |-> << <<>> >>, current_scope |-> Chars("global"),
     current_function_return_type |-> NoneStr, errors |-> <<>>,
     exc |-> None, visited |-> 0, entered |-> 0, exited |-> 0,
     resolved |-> <<>>]

enter_scope(st, scope_name) ==
    [st EXCEPT !.scopes = Append(@, <<>>), !.current_scope = scope_name,
               !.entered = @ + 1]

exit_scope(st) ==
    IF Len(st.scopes) > 1
    THEN [st EXCEPT !.scopes = SubSeq(@, 1, Len(@) - 1), !.current_scope = Chars("outer"),
                    !.exited = @ + 1]
    ELSE [st EXCEPT !.exited = @ + 1]

\* a declare that refuses a name held by any frame of the stack
DeclareAnyFrame(st, name, symbol_type) ==
    IF \E i \in 1..Len(st.scopes) : name \in DOMAIN st.scopes[i]
    THEN [st EXCEPT !.exc = SemanticError(Chars("Variable '") \o name \o Chars("' already declared in this scope"))]
    ELSE [st EXCEPT !.scopes[Len(st.scopes)] =
                        (name :> Symbol(name, symbol_type, st.current_scope))
                        @@ st.scopes[Len(st.scopes)]]

\* declare raises SemanticError when the name is in the innermost frame
declare(st, name, symbol_type) ==
    LET top == st.scopes[Len(st.scopes)] IN
    IF name \in DOMAIN top
    THEN [st EXCEPT !.exc = SemanticError(Chars("Variable '") \o name \o Chars("' already declared in this scope"))]
    ELSE [st EXCEPT !.scopes[Len(st.scopes)] =
                        (name :> Symbol(name, symbol_type, st.current_scope)) @@ top]

\* a search that returns the symbol of the outermost frame that holds name
LookupOutermost(scopes, name, i) ==
    IF \E j \in 1..i : name \in DOMAIN scopes[j]
    THEN scopes[CHOOSE j \in 1..i : /\ name \in DOMAIN scopes[j]
                                    /\ \A k \in 1..(j - 1) : name \notin DOMAIN scopes[k]][name]
    ELSE None

\* the innermost frame that holds name, searched from the top of the stack
RECURSIVE LookupFrom(_, _, _)
LookupFrom(scopes, name, i) ==
    IF i = 0 THEN None
    ELSE IF name \in DOMAIN scopes[i] THEN scopes[i][name]
         ELSE LookupFrom(scopes, name, i - 1)

lookup(st, name) == LookupFrom(st.scopes, name, Len(st.scopes))

\* a lookup for the use of name by a node of the given kind found its symbol
Resolved(st, kind, name) == [st EXCEPT !.resolved = Append(@, <<kind, name>>)]

\* SymbolTable.__init__: one frame, the global one, with nothing below it
GlobalFrameOnly == << [label |-> Chars("global"), below |-> <<>>] >>

\* no call has been made on the table yet
NoCall == [op |-> "none", name |-> NoneStr, result |-> None, before |-> <<>>,
           popped |-> None, count |-> 0]

\* SemanticAnalyzer.error
error(st, message) == [st EXCEPT !.errors = Append(@, message)]

\* try: ... except SemanticError as e: self.error(str(e))
CatchSemanticError(st) ==
    IF st.exc # None THEN error([st EXCEPT !.exc = None], st.exc.message) ELSE st

\* a try block that lets the SemanticError of declare escape
NoCatch(st) == st

\* the try/except around declare in visit_var_decl
VarDeclCatch(st) == CatchSemanticError(st)

\* a compatibility that accepts identical types only
SameTypeOnly(target_type, source_type) == target_type = source_type

is_compatible_type(target_type, source_type) ==
    \/ target_type = source_type
    \/ target_type \in {Chars("int"), Chars("float")} /\ source_type \in {Chars("int"), Chars("float")}
    \/ source_type = Chars("unknown")

\* result of an expression visit: the analyzer state and the type
Typed(st, type) == [st |-> st, type |-> type]

RECURSIVE visit_expression(_, _)
RECURSIVE VisitArguments(_, _, _)

\* for arg in node.arguments: self.visit_expression(arg)
VisitArguments(st, arguments, i) ==
    IF i > Len(arguments) \/ st.exc # None THEN st
    ELSE VisitArguments(visit_expression(st, arguments[i]).st, arguments, i + 1)

visit_binary_op(st, node) ==
    LET l == visit_expression(st, node.left)
        r == visit_expression(l.st, node.right)
    IN
    IF node.operator \in {"&&", "||", "==", "!=", "<", ">", "<=", ">="}
    THEN Typed(r.st, Chars("int"))
    ELSE IF node.operator \in {"+", "-", "*", "/", "%"}
         THEN IF l.type = Chars("float") \/ r.type = Chars("float")
              THEN Typed(r.st, Chars("float"))
              ELSE Typed(r.st, Chars("int"))
         ELSE Typed(r.st, Chars("int"))

visit_unary_op(st, node) ==
    LET o == visit_expression(st, node.operand) IN
    IF node.operator = "!" THEN Typed(o.st, Chars("int")) ELSE Typed(o.st, o.type)

visit_assignment(st, node) ==
    LET symbol == lookup(st, node.target) IN
    IF symbol = None
    THEN Typed(error(st, Chars("Assignment to undefined variable: '") \o node.target \o Chars("'")), Chars("unknown"))
    ELSE LET v == visit_expression(Resolved(st, "Assignment", node.target), node.value) IN
         IF ~is_compatible_type(symbol.type, v.type)
         THEN Typed(error(v.st, Chars("Type mismatch in assignment to '") \o node.target \o Chars("': cannot assign ")
                                \o v.type \o Chars(" to ") \o symbol.type), symbol.type)
         ELSE Typed(v.st, symbol.type)

visit_function_call(st, node) ==
    LET symbol == lookup(st, node.name) IN
    IF symbol = None
    THEN Typed(error(st, Chars("Call to undefined function: '") \o node.name \o Chars("'")), Chars("unknown"))
    ELSE IF ~StartsWith(symbol.type, Chars("function:"))
         THEN Typed(error(st, Chars("'") \o node.name \o Chars("' is not a function")), Chars("unknown"))
         ELSE Typed(VisitArguments(Resolved(st, "FunctionCall", node.name), node.arguments, 1),
                    AfterFirstColon(symbol.type))

visit_expression(st, node) ==
    IF node.kind = "IntLiteral" THEN Typed(st, Chars("int"))
    ELSE IF node.kind = "FloatLiteral" THEN Typed(st, Chars("float"))
    ELSE IF node.kind = "StringLiteral" THEN Typed(st, Chars("char*"))
    ELSE IF node.kind = "Identifier"
    THEN LET symbol == lookup(st, node.name) IN
         IF symbol = None
         THEN Typed(error(st, Chars("Undefined variable: '") \o node.name \o Chars("'")), Chars("unknown"))
         ELSE Typed(Resolved(st, "Identifier", node.name), symbol.type)
    ELSE IF node.kind = "BinaryOp" THEN visit_binary_op(st, node)
    ELSE IF node.kind = "UnaryOp" THEN visit_unary_op(st, node)
    ELSE IF node.kind = "Assignment" THEN visit_assignment(st, node)
    ELSE IF node.kind = "FunctionCall" THEN visit_function_call(st, node)
    ELSE Typed(st, Chars("unknown"))

\* visit_var_decl once the initializer is visited: its type is checked
InitializerChecked(init, node) ==
    IF ~is_compatible_type(node.var_type, init.type)
    THEN error(init.st, Chars("Type mismatch in initialization of '") \o node.name \o Chars("': cannot assign ")
                        \o init.type \o Chars(" to ") \o node.var_type)
    ELSE init.st

\* visit_var_decl after the try block around declare
VarDeclInitializer(s1, node) ==
    IF s1.exc # None THEN s1
    ELSE IF node.initializer # None
    THEN InitializerChecked(visit_expression(s1, node.initializer), node)
    ELSE s1

visit_var_decl(st, node) ==
    VarDeclInitializer(
        VarDeclCatch(declare([st EXCEPT !.visited = @ + 1], node.name, node.var_type)),
        node)

\* visit_return_stmt once the expression is visited: its type is checked
ReturnChecked(st, e) ==
    IF ~is_compatible_type(st.current_function_return_type, e.type)
    THEN error(e.st, Chars("Return type mismatch: expected ") \o st.current_function_return_type
                     \o Chars(", got ") \o e.type)
    ELSE e.st

visit_return_stmt(st, node) ==
    IF st.current_function_return_type = NoneStr
    THEN error(st, Chars("Return statement outside of function"))
    ELSE IF node.expression # None
    THEN ReturnChecked(st, visit_expression(st, node.expression))
    ELSE IF st.current_function_return_type # Chars("void")
    THEN error(st, Chars("Return statement must return a value of type ") \o st.current_function_return_type)
    ELSE st

RECURSIVE visit_statement(_, _)
RECURSIVE VisitStatements(_, _, _)

\* for stmt in node.statements: self.visit_statement(stmt)
VisitStatements(st, statements, i) ==
    IF i > Len(statements) \/ st.exc # None THEN st
    ELSE VisitStatements(visit_statement(st, statements[i]), statements, i + 1)

visit_compound_stmt(st, node) == VisitStatements(st, node.statements, 1)

\* a visit_for_stmt that returns without leaving its scope
ForKeepsScope(st) == st

\* the exit_scope call that ends visit_for_stmt
ForExitScope(st) == exit_scope(st)

\* visit_if_stmt after the condition: the then branch
VisitThen(c, node) == IF c.exc # None THEN c ELSE visit_statement(c, node.then_stmt)

\* visit_if_stmt after the then branch: the else branch, if there is one
VisitElse(t, node) ==
    IF t.exc = None /\ node.else_stmt # None
    THEN visit_statement(t, node.else_stmt)
    ELSE t

visit_if_stmt(st, node) ==
    VisitElse(VisitThen(visit_expression(st, node.condition).st, node), node)

\* visit_while_stmt after the condition: the body
VisitWhileBody(c, node) == IF c.exc # None THEN c ELSE visit_statement(c, node.body)

visit_while_stmt(st, node) ==
    VisitWhileBody(visit_expression(st, node.condition).st, node)

\* visit_for_stmt after enter_scope: the init, a declaration or a statement
VisitForInit(s0, node) ==
    IF node.init # None
    THEN IF node.init.kind = "VarDecl"
         THEN visit_var_decl(s0, node.init)
         ELSE visit_statement(s0, node.init)
    ELSE s0

VisitForCondition(s1, node) ==
    IF s1.exc = None /\ node.condition # None
    THEN visit_expression(s1, node.condition).st
    ELSE s1

VisitForUpdate(s2, node) ==
    IF s2.exc = None /\ node.update # None
    THEN visit_expression(s2, node.update).st
    ELSE s2

VisitForBody(s3, node) == IF s3.exc = None THEN visit_statement(s3, node.body) ELSE s3

\* the end of visit_for_stmt
LeaveFor(s4) == IF s4.exc = None THEN ForExitScope(s4) ELSE s4

visit_for_stmt(st, node) ==
    LeaveFor(
        VisitForBody(
            VisitForUpdate(
                VisitForCondition(VisitForInit(enter_scope(st, Chars("for")), node), node),
                node),
            node))

\* the end of a block in statement position
LeaveBlock(b) == IF b.exc = None THEN exit_scope(b) ELSE b

visit_statement(st, node) ==
    IF node.kind = "VarDecl" THEN visit_var_decl(st, node)
    ELSE LET s0 == [st EXCEPT !.visited = @ + 1] IN
    IF node.kind = "CompoundStmt"
    THEN LeaveBlock(visit_compound_stmt(enter_scope(s0, Chars("block")), node))
    ELSE IF node.kind = "ExpressionStmt"
    THEN IF node.expression # None
         THEN visit_expression(s0, node.expression).st
         ELSE s0
    ELSE IF node.kind = "ReturnStmt" THEN visit_return_stmt(s0, node)
    ELSE IF node.kind = "IfStmt" THEN visit_if_stmt(s0, node)
    ELSE IF node.kind = "WhileStmt" THEN visit_while_stmt(s0, node)
    ELSE IF node.kind = "ForStmt" THEN visit_for_stmt(s0, node)
    ELSE s0

\* for param in node.parameters: try: declare(...) except: error(...)
RECURSIVE DeclareParameters(_, _, _)
DeclareParameters(st, parameters, i) ==
    IF i > Len(parameters) \/ st.exc # None THEN st
    ELSE DeclareParameters(
             CatchSemanticError(declare(st, parameters[i].name, parameters[i].param_type)),
             parameters, i + 1)

\* visit_function_decl after the parameters: the body
VisitFunctionBody(s3, node) ==
    IF s3.exc = None THEN visit_compound_stmt(s3, node.body) ELSE s3

\* the end of visit_function_decl
LeaveFunction(s4) ==
    IF s4.exc = None
    THEN [exit_scope(s4) EXCEPT !.current_function_return_type = NoneStr]
    ELSE s4

\* visit_function_decl after the try block around declare: if node.body
FunctionBody(s1, node) ==
    IF s1.exc = None /\ node.body # None
    THEN LeaveFunction(
             VisitFunctionBody(
                 DeclareParameters(
                     [enter_scope(s1, Chars("function:") \o node.name)
                         EXCEPT !.current_function_return_type = node.return_type],
                     node.parameters, 1),
                 node))
    ELSE s1

\* after a declare that raised the function is left alone
RefusedUnwalked(d, node) ==
    IF d.exc = None THEN FunctionBody(d, node) ELSE CatchSemanticError(d)

\* a visit that leaves the function alone once its name is refused
FunctionDeclRefusedUnwalked(st, node) ==
    RefusedUnwalked(
        declare([st EXCEPT !.visited = @ + 1], node.name,
                Chars("function:") \o node.return_type),
        node)

visit_function_decl(st, node) ==
    FunctionBody(
        CatchSemanticError(declare([st EXCEPT !.visited = @ + 1], node.name,
                                   Chars("function:") \o node.return_type)),
        node)

\* one iteration of the loop of visit_program
VisitDeclaration(st, decl) ==
    IF decl.kind = "FunctionDecl" THEN visit_function_decl(st, decl)
    ELSE IF decl.kind = "VarDecl" THEN visit_var_decl(st, decl)
    ELSE st

--------------------------------------------------------------------------
(* Number formatting and parsing *)

DigitChars == <<"0", "1", "2", "3", "4", "5", "6", "7", "8", "9">>

\* str(n) for a natural number n
RECURSIVE NatToStr(_)
NatToStr(n) ==
    IF n < 10 THEN <<DigitChars[n + 1]>>
    ELSE NatToStr(n \div 10) \o <<DigitChars[(n % 10) + 1]>>

UpperChars == <<"A", "B", "C", "D", "E", "F", "G", "H", "I", "J", "K", "L", "M",
                "N", "O", "P", "Q", "R", "S", "T", "U", "V", "W", "X", "Y", "Z">>

LowerChars == <<"a", "b", "c", "d", "e", "f", "g", "h", "i", "j", "k", "l", "m",
                "n", "o", "p", "q", "r", "s", "t", "u", "v", "w", "x", "y", "z">>

\* s.lower()
LowerChar(ch) ==
    IF \E i \in 1..26 : UpperChars[i] = ch
    THEN LowerChars[CHOOSE i \in 1..26 : UpperChars[i] = ch]
    ELSE ch

Lower(s) == [i \in 1..Len(s) |-> LowerChar(s[i])]

AllDigits(s) == \A i \in 1..Len(s) : IsDigit(s[i])

\* digits [. digits] | . digits : a decimal mantissa with at least one digit
IsMantissa(s) ==
    \/ Len(s) >= 1 /\ AllDigits(s)
    \/ \E k \in 1..Len(s) :
          /\ s[k] = "."
          /\ AllDigits(SubSeq(s, 1, k - 1))
          /\ AllDigits(SubSeq(s, k + 1, Len(s)))
          /\ Len(s) >= 2

\* [+-] digits+
IsExponent(s) ==
    LET d == IF Len(s) >= 1 /\ s[1] \in {"+", "-"} THEN SubSeq(s, 2, Len(s)) ELSE s
    IN Len(d) >= 1 /\ AllDigits(d)

\* the unsigned forms float() accepts
IsUnsignedFloat(s) ==
    \/ Lower(s) \in {Chars("nan"), Chars("inf"), Chars("infinity")}
    \/ IsMantissa(s)
    \/ \E k \in 1..Len(s) :
          /\ s[k] \in {"e", "E"}
          /\ IsMantissa(SubSeq(s, 1, k - 1))
          /\ IsExponent(SubSeq(s, k + 1, Len(s)))

\* float(value) does not raise ValueError.  Surrounding whitespace and
\* underscores between digits, which float() also accepts, occur in no
\* TAC operand: the lexer ends a name or a number at either.
FloatParses(s) ==
    IF Len(s) >= 1 /\ s[1] \in {"+", "-"}
    THEN IsUnsignedFloat(SubSeq(s, 2, Len(s)))
    ELSE IsUnsignedFloat(s)

\* line.split(): the maximal runs of non-whitespace characters
RECURSIVE SplitFrom(_, _, _, _)
SplitFrom(s, i, word, parts) ==
    IF i > Len(s)
    THEN IF word = <<>> THEN parts ELSE Append(parts, word)
    ELSE IF s[i] \in {" ", "\t", "\n", "\r", "\f"}
         THEN SplitFrom(s, i + 1, <<>>, IF word = <<>> THEN parts ELSE Append(parts, word))
         ELSE SplitFrom(s, i + 1, Append(word, s[i]), parts)

Split(s) == SplitFrom(s, 1, <<>>, <<>>)

\* s.rstrip(',')
RECURSIVE RStripComma(_)
RStripComma(s) ==
    IF Len(s) >= 1 /\ s[Len(s)] = "," THEN RStripComma(SubSeq(s, 1, Len(s) - 1)) ELSE s

--------------------------------------------------------------------------
(* Parser: src/parser.py.  toks is Parser.tokens, pos is Parser.position  *)
(* (counted from 0); a parse function returns the position it stopped at, *)
(* the node it built, and the SyntaxError it raised or None.               *)

CurrentToken(toks, pos) == toks[pos + 1]

\* Parser.advance: the position never moves past the last token
parser_advance(toks, pos) == IF pos < Len(toks) - 1 THEN pos + 1 ELSE pos

Parsed(pos, node) == [pos |-> pos, node |-> node, error |-> None]

\* Parser.error: SyntaxError at the line and column of the current token
Failed(toks, pos, message) ==
    [pos |-> pos, node |-> None,
     error |-> [kind |-> "SyntaxError", line |-> CurrentToken(toks, pos).line,
                column |-> CurrentToken(toks, pos).column, message |-> message]]

\* an expect that goes on without the token it did not find
ExpectLenient(toks, pos, token_type) ==
    IF CurrentToken(toks, pos).type # token_type
    THEN Parsed(pos, CurrentToken(toks, pos))
    ELSE Parsed(parser_advance(toks, pos), CurrentToken(toks, pos))

\* Parser.expect: the node of the result is the token consumed
expect(toks, pos, token_type) ==
    IF CurrentToken(toks, pos).type # token_type
    THEN Failed(toks, pos, "Expected " \o token_type \o ", got " \o CurrentToken(toks, pos).type)
    ELSE Parsed(parser_advance(toks, pos), CurrentToken(toks, pos))

match(toks, pos, token_types) == CurrentToken(toks, pos).type \in token_types

\* str(int(digits)): the digits without their leading zeros
RECURSIVE IntText(_)
IntText(digits) ==
    IF Len(digits) > 1 /\ Head(digits) = "0" THEN IntText(Tail(digits)) ELSE digits

\* the digits without their trailing zeros
RECURSIVE StripTrailingZeros(_)
StripTrailingZeros(digits) ==
    IF digits # <<>> /\ digits[Len(digits)] = "0"
    THEN StripTrailingZeros(SubSeq(digits, 1, Len(digits) - 1))
    ELSE digits

\* str(float(text)) for the text of a FLOAT_LITERAL token, digits "." digits,
\* of at most 15 significant digits: positional notation from 0.0001 up,
\* exponent notation below
FloatText(text) ==
    LET dot == CHOOSE i \in 1..Len(text) : text[i] = "."
        whole == IntText(SubSeq(text, 1, dot - 1))
        frac == StripTrailingZeros(SubSeq(text, dot + 1, Len(text)))
        lead == IF frac = <<>> THEN 0
                ELSE (CHOOSE i \in 1..Len(frac) : frac[i] # "0" /\ \A j \in 1..(i - 1) : frac[j] = "0") - 1
        digits == SubSeq(frac, lead + 1, Len(frac))
    IN
    IF whole = <<"0">> /\ lead >= 4
    THEN <<Head(digits)>> \o (IF Len(digits) > 1 THEN <<".">> \o Tail(digits) ELSE <<>>)
         \o Chars("e-") \o (IF lead + 1 < 10 THEN <<"0">> ELSE <<>>) \o NatToStr(lead + 1)
    ELSE whole \o <<".">> \o (IF frac = <<>> THEN <<"0">> ELSE frac)

\* the operator token types of the six binary levels, loosest first:
\* parse_logical_or, parse_logical_and, parse_equality, parse_relational,
\* parse_additive, parse_multiplicative
\* the levels with the additive and the multiplicative operators exchanged
LevelsAdditiveLast ==
    << {"LOGICAL_OR"}, {"LOGICAL_AND"}, {"EQUAL", "NOT_EQUAL"},
       {"LESS_THAN", "GREATER_THAN", "LESS_EQUAL", "GREATER_EQUAL"},
       {"MULTIPLY", "DIVIDE", "MODULO"}, {"PLUS", "MINUS"} >>

BinaryLevels ==
    << {"LOGICAL_OR"}, {"LOGICAL_AND"}, {"EQUAL", "NOT_EQUAL"},
       {"LESS_THAN", "GREATER_THAN", "LESS_EQUAL", "GREATER_EQUAL"},
       {"PLUS", "MINUS"}, {"MULTIPLY", "DIVIDE", "MODULO"} >>

\* the operator of a node, a string, from the characters of its token
OperatorOf(value) == IF Len(value) = 2 THEN value[1] \o value[2] ELSE value[1]

\* one step of a parse function and the steps after it: a SyntaxError
\* raised by the step leaves the function; otherwise the rest runs
\* (the step is evaluated once, into done)
Bind(step, Rest(_)) ==
    CHOOSE result \in {IF done.error # None THEN done ELSE Rest(done) : done \in {step}} : TRUE

\* a target test that takes a function call for a target as well
IdentifierOrCall(node) == node.kind \in {"Identifier", "FunctionCall"}

\* isinstance(expr, Identifier) in parse_expression
IsAssignmentTarget(node) == node.kind = "Identifier"

RECURSIVE parse_expression(_, _)
RECURSIVE ParseBinary(_, _, _)
RECURSIVE BinaryLoop(_, _, _)
RECURSIVE parse_unary(_, _)
RECURSIVE parse_postfix(_, _)
RECURSIVE ParseArguments(_, _, _)
RECURSIVE parse_primary(_, _)

parse_expression(toks, pos) ==
    Bind(ParseBinary(toks, pos, 1), LAMBDA expr :
        IF CurrentToken(toks, expr.pos).type = "ASSIGN"
        THEN IF ~IsAssignmentTarget(expr.node)
             THEN Failed(toks, expr.pos, "Invalid assignment target")
             ELSE Bind(parse_expression(toks, parser_advance(toks, expr.pos)), LAMBDA value :
                      Parsed(value.pos, Assignment(expr.node.name, value.node)))
        ELSE expr)

\* the binary level: its first operand, then its while loop
ParseBinary(toks, pos, level) ==
    IF level > Len(BinaryLevels) THEN parse_unary(toks, pos)
    ELSE Bind(ParseBinary(toks, pos, level + 1), LAMBDA left :
             BinaryLoop(toks, left, level))

\* while the current token is an operator of the level: left = BinaryOp(...)
BinaryLoop(toks, left, level) ==
    IF match(toks, left.pos, BinaryLevels[level])
    THEN Bind(ParseBinary(toks, parser_advance(toks, left.pos), level + 1), LAMBDA right :
             BinaryLoop(toks,
                        Parsed(right.pos,
                               BinaryOp(OperatorOf(CurrentToken(toks, left.pos).value),
                                        left.node, right.node)),
                        level))
    ELSE left

parse_unary(toks, pos) ==
    IF match(toks, pos, {"MINUS", "LOGICAL_NOT"})
    THEN Bind(parse_unary(toks, parser_advance(toks, pos)), LAMBDA operand :
             Parsed(operand.pos,
                    UnaryOp(OperatorOf(CurrentToken(toks, pos).value), operand.node)))
    ELSE parse_postfix(toks, pos)

\* while the current token is a comma: skip it, parse one more argument
ParseArguments(toks, pos, arguments) ==
    IF CurrentToken(toks, pos).type = "COMMA"
    THEN Bind(parse_expression(toks, parser_advance(toks, pos)), LAMBDA arg :
             ParseArguments(toks, arg.pos, Append(arguments, arg.node)))
    ELSE Parsed(pos, arguments)

parse_postfix(toks, pos) ==
    Bind(parse_primary(toks, pos), LAMBDA expr :
        IF CurrentToken(toks, expr.pos).type = "LPAREN"
        THEN IF expr.node.kind # "Identifier"
             THEN Failed(toks, expr.pos, "Invalid function call")
             ELSE Bind(IF CurrentToken(toks, parser_advance(toks, expr.pos)).type = "RPAREN"
                       THEN Parsed(parser_advance(toks, expr.pos), <<>>)
                       ELSE Bind(parse_expression(toks, parser_advance(toks, expr.pos)),
                                 LAMBDA first : ParseArguments(toks, first.pos, <<first.node>>)),
                       LAMBDA args :
                  Bind(expect(toks, args.pos, "RPAREN"), LAMBDA close :
                      Parsed(close.pos, FunctionCall(expr.node.name, args.node))))
        ELSE expr)

parse_primary(toks, pos) ==
    LET token == CurrentToken(toks, pos) IN
    IF token.type = "INTEGER_LITERAL"
    THEN Parsed(parser_advance(toks, pos), IntLiteral(IntText(token.value)))
    ELSE IF token.type = "FLOAT_LITERAL"
    THEN Parsed(parser_advance(toks, pos), FloatLiteral(FloatText(token.value)))
    ELSE IF token.type = "STRING_LITERAL"
    THEN Parsed(parser_advance(toks, pos), StringLiteral(token.value))
    ELSE IF token.type = "IDENTIFIER"
    THEN Parsed(parser_advance(toks, pos), Identifier(token.value))
    ELSE IF token.type = "LPAREN"
    THEN Bind(parse_expression(toks, parser_advance(toks, pos)), LAMBDA expr :
         Bind(expect(toks, expr.pos, "RPAREN"), LAMBDA close :
             Parsed(close.pos, expr.node)))
    ELSE Failed(toks, pos, "Unexpected token: " \o token.type)

RECURSIVE parse_declaration(_, _)
RECURSIVE parse_function_declaration(_, _, _, _)
RECURSIVE parse_compound_statement(_, _)
RECURSIVE ParseStatements(_, _, _)
RECURSIVE parse_statement(_, _)
RECURSIVE parse_if_statement(_, _)
RECURSIVE parse_while_statement(_, _)
RECURSIVE parse_for_statement(_, _)

\* the loop of parse_parameter_list
RECURSIVE parse_parameter_list(_, _, _)
parse_parameter_list(toks, pos, parameters) ==
    IF ~match(toks, pos, {"INT", "FLOAT", "CHAR"})
    THEN Failed(toks, pos, "Expected parameter type")
    ELSE Bind(expect(toks, parser_advance(toks, pos), "IDENTIFIER"), LAMBDA name :
             IF CurrentToken(toks, name.pos).type # "COMMA"
             THEN Parsed(name.pos,
                         Append(parameters,
                                Parameter(CurrentToken(toks, pos).value, name.node.value)))
             ELSE parse_parameter_list(toks, parser_advance(toks, name.pos),
                         Append(parameters,
                                Parameter(CurrentToken(toks, pos).value, name.node.value))))

parse_variable_declaration(toks, pos, var_type, name) ==
    Bind(IF CurrentToken(toks, pos).type = "ASSIGN"
         THEN parse_expression(toks, parser_advance(toks, pos))
         ELSE Parsed(pos, None), LAMBDA init :
    Bind(expect(toks, init.pos, "SEMICOLON"), LAMBDA semi :
        Parsed(semi.pos, VarDecl(var_type, name, init.node))))

parse_function_declaration(toks, pos, return_type, name) ==
    Bind(expect(toks, pos, "LPAREN"), LAMBDA open :
    Bind(IF CurrentToken(toks, open.pos).type # "RPAREN"
         THEN parse_parameter_list(toks, open.pos, <<>>)
         ELSE Parsed(open.pos, <<>>), LAMBDA params :
    Bind(expect(toks, params.pos, "RPAREN"), LAMBDA close :
    Bind(IF CurrentToken(toks, close.pos).type = "LBRACE"
         THEN parse_compound_statement(toks, close.pos)
         ELSE Bind(expect(toks, close.pos, "SEMICOLON"), LAMBDA semi :
                  Parsed(semi.pos, None)), LAMBDA body :
        Parsed(body.pos, FunctionDecl(return_type, name, params.node, body.node))))))

parse_declaration(toks, pos) ==
    IF ~match(toks, pos, {"INT", "FLOAT", "CHAR", "VOID"})
    THEN Failed(toks, pos, "Expected type specifier, got " \o CurrentToken(toks, pos).type)
    ELSE Bind(expect(toks, parser_advance(toks, pos), "IDENTIFIER"), LAMBDA name :
             IF CurrentToken(toks, name.pos).type = "LPAREN"
             THEN parse_function_declaration(toks, name.pos,
                                             CurrentToken(toks, pos).value, name.node.value)
             ELSE parse_variable_declaration(toks, name.pos,
                                             CurrentToken(toks, pos).value, name.node.value))

\* while the current token is not RBRACE: statements.append(parse_statement())
ParseStatements(toks, pos, statements) ==
    IF CurrentToken(toks, pos).type = "RBRACE" THEN Parsed(pos, statements)
    ELSE Bind(parse_statement(toks, pos), LAMBDA stmt :
             ParseStatements(toks, stmt.pos, Append(statements, stmt.node)))

parse_compound_statement(toks, pos) ==
    Bind(expect(toks, pos, "LBRACE"), LAMBDA open :
    Bind(ParseStatements(toks, open.pos, <<>>), LAMBDA stmts :
    Bind(expect(toks, stmts.pos, "RBRACE"), LAMBDA close :
        Parsed(close.pos, CompoundStmt(stmts.node)))))

parse_return_statement(toks, pos) ==
    Bind(expect(toks, pos, "RETURN"), LAMBDA ret :
    Bind(IF CurrentToken(toks, ret.pos).type # "SEMICOLON"
         THEN parse_expression(toks, ret.pos)
         ELSE Parsed(ret.pos, None), LAMBDA expr :
    Bind(expect(toks, expr.pos, "SEMICOLON"), LAMBDA semi :
        Parsed(semi.pos, ReturnStmt(expr.node)))))

parse_expression_statement(toks, pos) ==
    IF CurrentToken(toks, pos).type = "SEMICOLON"
    THEN Parsed(parser_advance(toks, pos), ExpressionStmt(None))
    ELSE Bind(parse_expression(toks, pos), LAMBDA expr :
         Bind(expect(toks, expr.pos, "SEMICOLON"), LAMBDA semi :
             Parsed(semi.pos, ExpressionStmt(expr.node))))

\* the keyword, "(", the condition and ")" that open an if and a while
ParseCondition(toks, pos, keyword) ==
    Bind(expect(toks, pos, keyword), LAMBDA kw :
    Bind(expect(toks, kw.pos, "LPAREN"), LAMBDA open :
    Bind(parse_expression(toks, open.pos), LAMBDA condition :
    Bind(expect(toks, condition.pos, "RPAREN"), LAMBDA close :
        Parsed(close.pos, condition.node)))))

parse_if_statement(toks, pos) ==
    Bind(ParseCondition(toks, pos, "IF"), LAMBDA condition :
    Bind(parse_statement(toks, condition.pos), LAMBDA then_stmt :
    Bind(IF CurrentToken(toks, then_stmt.pos).type = "ELSE"
         THEN parse_statement(toks, parser_advance(toks, then_stmt.pos))
         ELSE Parsed(then_stmt.pos, None), LAMBDA else_stmt :
        Parsed(else_stmt.pos, IfStmt(condition.node, then_stmt.node, else_stmt.node)))))

parse_while_statement(toks, pos) ==
    Bind(ParseCondition(toks, pos, "WHILE"), LAMBDA condition :
    Bind(parse_statement(toks, condition.pos), LAMBDA body :
        Parsed(body.pos, WhileStmt(condition.node, body.node))))

parse_for_statement(toks, pos) ==
    Bind(expect(toks, pos, "FOR"), LAMBDA kw :
    Bind(expect(toks, kw.pos, "LPAREN"), LAMBDA open :
    Bind(IF match(toks, open.pos, {"INT", "FLOAT", "CHAR"})
         THEN parse_declaration(toks, open.pos)
         ELSE IF CurrentToken(toks, open.pos).type # "SEMICOLON"
         THEN parse_expression_statement(toks, open.pos)
         ELSE Parsed(parser_advance(toks, open.pos), None), LAMBDA init :
    Bind(IF CurrentToken(toks, init.pos).type # "SEMICOLON"
         THEN parse_expression(toks, init.pos)
         ELSE Parsed(init.pos, None), LAMBDA condition :
    Bind(expect(toks, condition.pos, "SEMICOLON"), LAMBDA semi :
    Bind(IF CurrentToken(toks, semi.pos).type # "RPAREN"
         THEN parse_expression(toks, semi.pos)
         ELSE Parsed(semi.pos, None), LAMBDA update :
    Bind(expect(toks, update.pos, "RPAREN"), LAMBDA close :
    Bind(parse_statement(toks, close.pos), LAMBDA body :
        Parsed(body.pos,
               ForStmt(init.node, condition.node, update.node, body.node))))))))))

parse_statement(toks, pos) ==
    IF match(toks, pos, {"INT", "FLOAT", "CHAR"}) THEN parse_declaration(toks, pos)
    ELSE IF CurrentToken(toks, pos).type = "RETURN" THEN parse_return_statement(toks, pos)
    ELSE IF CurrentToken(toks, pos).type = "IF" THEN parse_if_statement(toks, pos)
    ELSE IF CurrentToken(toks, pos).type = "WHILE" THEN parse_while_statement(toks, pos)
    ELSE IF CurrentToken(toks, pos).type = "FOR" THEN parse_for_statement(toks, pos)
    ELSE IF CurrentToken(toks, pos).type = "LBRACE" THEN parse_compound_statement(toks, pos)
    ELSE parse_expression_statement(toks, pos)

\* the while loop of Parser.parse
RECURSIVE ParseDeclarations(_, _, _)
ParseDeclarations(toks, pos, declarations) ==
    IF CurrentToken(toks, pos).type = "EOF" THEN Parsed(pos, declarations)
    ELSE Bind(parse_declaration(toks, pos), LAMBDA decl :
             ParseDeclarations(toks, decl.pos, Append(declarations, decl.node)))

\* Parser(tokens).parse(): the node of the result is Program.declarations
parse(toks) == ParseDeclarations(toks, 0, <<>>)

--------------------------------------------------------------------------
(* IR generator: src/intermediate_code.py *)

TACAssign(result, arg1) == [kind |-> "TACAssign", result |-> result, arg1 |-> arg1]

TACBinaryOp(result, arg1, op, arg2) ==
    [kind |-> "TACBinaryOp", result |-> result, arg1 |-> arg1, op |-> op, arg2 |-> arg2]

TACUnaryOp(result, op, arg) ==
    [kind |-> "TACUnaryOp", result |-> result, op |-> op, arg |-> arg]

TACLabel(label) == [kind |-> "TACLabel", label |-> label]

TACGoto(label) == [kind |-> "TACGoto", label |-> label]

TACIfGoto(condition, label) ==
    [kind |-> "TACIfGoto", condition |-> condition, label |-> label]

TACIfFalseGoto(condition, label) ==
    [kind |-> "TACIfFalseGoto", condition |-> condition, label |-> label]

TACCall(result, function, n_args) ==
    [kind |-> "TACCall", result |-> result, function |-> function, n_args |-> n_args]

TACParam(arg) == [kind |-> "TACParam", arg |-> arg]

TACReturn(value) == [kind |-> "TACReturn", value |-> value]

TACFunctionStart(name) == [kind |-> "TACFunctionStart", name |-> name]

TACFunctionEnd(name) == [kind |-> "TACFunctionEnd", name |-> name]

\* IntermediateCodeGenerator.__init__: the generator's fields as a record g
IrFresh == [instructions |-> <<>>, temp_counter |-> 0, label_counter |-> 0]

\* result of a call that returns a name: the generator state and the name
Named(g, name) == [g |-> g, name |-> name]

new_temp(g) ==
    Named([g EXCEPT !.temp_counter = @ + 1], Chars("t") \o NatToStr(g.temp_counter))

\* a new_label that does not advance its counter
NewLabelStuck(g) == Named(g, Chars("L") \o NatToStr(g.label_counter))

new_label(g) ==
    Named([g EXCEPT !.label_counter = @ + 1], Chars("L") \o NatToStr(g.label_counter))

emit(g, instruction) == [g EXCEPT !.instructions = Append(@, instruction)]

RECURSIVE ir_visit_expression(_, _)
RECURSIVE IrVisitArgumentsReversed(_, _, _)

\* a loop over the arguments that lowers and passes them in source order
RECURSIVE ArgumentsInSourceOrder(_, _, _)
ArgumentsInSourceOrder(g, arguments, i) ==
    IF i < 1 THEN g
    ELSE LET a == ir_visit_expression(g, arguments[Len(arguments) - i + 1]) IN
         ArgumentsInSourceOrder(emit(a.g, TACParam(a.name)), arguments, i - 1)

\* for arg in reversed(node.arguments): emit(TACParam(visit_expression(arg)))
IrVisitArgumentsReversed(g, arguments, i) ==
    IF i < 1 THEN g
    ELSE LET a == ir_visit_expression(g, arguments[i]) IN
         IrVisitArgumentsReversed(emit(a.g, TACParam(a.name)), arguments, i - 1)

ir_visit_binary_op(g, node) ==
    LET l == ir_visit_expression(g, node.left)
        r == ir_visit_expression(l.g, node.right)
        t == new_temp(r.g)
    IN Named(emit(t.g, TACBinaryOp(t.name, l.name, node.operator, r.name)), t.name)

ir_visit_unary_op(g, node) ==
    LET o == ir_visit_expression(g, node.operand)
        t == new_temp(o.g)
    IN Named(emit(t.g, TACUnaryOp(t.name, node.operator, o.name)), t.name)

ir_visit_assignment(g, node) ==
    LET v == ir_visit_expression(g, node.value) IN
    Named(emit(v.g, TACAssign(node.target, v.name)), node.target)

\* a call lowered as if it took no argument off the stack
CallCountsNoArgument(g, node) ==
    LET a == IrVisitArgumentsReversed(g, node.arguments, Len(node.arguments))
        t == new_temp(a)
    IN Named(emit(t.g, TACCall(t.name, node.name, 0)), t.name)

ir_visit_function_call(g, node) ==
    LET a == IrVisitArgumentsReversed(g, node.arguments, Len(node.arguments))
        t == new_temp(a)
    IN Named(emit(t.g, TACCall(t.name, node.name, Len(node.arguments))), t.name)

\* (the generator is read once, into now, when the visit begins)
ir_visit_expression(g, node) ==
    CHOOSE named \in
        {IF node.kind = "IntLiteral" THEN Named(now, node.value)
         ELSE IF node.kind = "FloatLiteral" THEN Named(now, node.value)
         ELSE IF node.kind = "StringLiteral" THEN Named(now, <<"\"">> \o node.value \o <<"\"">>)
         ELSE IF node.kind = "Identifier" THEN Named(now, node.name)
         ELSE IF node.kind = "BinaryOp" THEN ir_visit_binary_op(now, node)
         ELSE IF node.kind = "UnaryOp" THEN ir_visit_unary_op(now, node)
         ELSE IF node.kind = "Assignment" THEN ir_visit_assignment(now, node)
         ELSE IF node.kind = "FunctionCall" THEN ir_visit_function_call(now, node)
         ELSE Named(now, Chars("unknown")) : now \in {g}} : TRUE

ir_visit_var_decl(g, node) ==
    IF node.initializer # None
    THEN LET t == ir_visit_expression(g, node.initializer) IN
         emit(t.g, TACAssign(node.name, t.name))
    ELSE g

ir_visit_return_stmt(g, node) ==
    IF node.expression # None
    THEN LET t == ir_visit_expression(g, node.expression) IN emit(t.g, TACReturn(t.name))
    ELSE emit(g, TACReturn(NoneStr))

RECURSIVE ir_visit_statement(_, _)
RECURSIVE IrVisitStatements(_, _, _)

IrVisitStatements(g, statements, i) ==
    IF i > Len(statements) THEN g
    ELSE IrVisitStatements(ir_visit_statement(g, statements[i]), statements, i + 1)

ir_visit_compound_stmt(g, node) == IrVisitStatements(g, node.statements, 1)

ir_visit_if_stmt(g, node) ==
    LET c == ir_visit_expression(g, node.condition) IN
    IF node.else_stmt # None
    THEN LET else_label == new_label(c.g)
             end_label == new_label(else_label.g)
             g1 == emit(end_label.g, TACIfFalseGoto(c.name, else_label.name))
             g2 == ir_visit_statement(g1, node.then_stmt)
             g3 == emit(emit(g2, TACGoto(end_label.name)), TACLabel(else_label.name))
             g4 == ir_visit_statement(g3, node.else_stmt)
         IN emit(g4, TACLabel(end_label.name))
    ELSE LET end_label == new_label(c.g)
             g1 == emit(end_label.g, TACIfFalseGoto(c.name, end_label.name))
             g2 == ir_visit_statement(g1, node.then_stmt)
         IN emit(g2, TACLabel(end_label.name))

\* a lowering of while that runs the body before it tests the condition
WhileTestsAfterBody(g, node) ==
    LET start_label == new_label(g)
        end_label == new_label(start_label.g)
        g1 == ir_visit_statement(emit(end_label.g, TACLabel(start_label.name)), node.body)
        c == ir_visit_expression(g1, node.condition)
    IN emit(emit(emit(c.g, TACIfFalseGoto(c.name, end_label.name)),
                 TACGoto(start_label.name)), TACLabel(end_label.name))

ir_visit_while_stmt(g, node) ==
    LET start_label == new_label(g)
        end_label == new_label(start_label.g)
        g1 == emit(end_label.g, TACLabel(start_label.name))
        c == ir_visit_expression(g1, node.condition)
        g2 == emit(c.g, TACIfFalseGoto(c.name, end_label.name))
        g3 == ir_visit_statement(g2, node.body)
    IN emit(emit(g3, TACGoto(start_label.name)), TACLabel(end_label.name))

\* a lowering of for whose back edge goes to the update label
ForContinuesAtUpdate(g, node) ==
    LET g0 == IF node.init # None
              THEN IF node.init.kind = "VarDecl"
                   THEN ir_visit_var_decl(g, node.init)
                   ELSE ir_visit_statement(g, node.init)
              ELSE g
        start_label == new_label(g0)
        end_label == new_label(start_label.g)
        update_label == new_label(end_label.g)
        g1 == emit(update_label.g, TACLabel(start_label.name))
        g2 == IF node.condition # None
              THEN LET c == ir_visit_expression(g1, node.condition) IN
                   emit(c.g, TACIfFalseGoto(c.name, end_label.name))
              ELSE g1
        g3 == ir_visit_statement(g2, node.body)
        g4 == emit(g3, TACLabel(update_label.name))
        g5 == IF node.update # None THEN ir_visit_expression(g4, node.update).g ELSE g4
    IN emit(emit(g5, TACGoto(update_label.name)), TACLabel(end_label.name))

ir_visit_for_stmt(g, node) ==
    LET g0 == IF node.init # None
              THEN IF node.init.kind = "VarDecl"
                   THEN ir_visit_var_decl(g, node.init)
                   ELSE ir_visit_statement(g, node.init)
              ELSE g
        start_label == new_label(g0)
        end_label == new_label(start_label.g)
        update_label == new_label(end_label.g)
        g1 == emit(update_label.g, TACLabel(start_label.name))
        g2 == IF node.condition # None
              THEN LET c == ir_visit_expression(g1, node.condition) IN
                   emit(c.g, TACIfFalseGoto(c.name, end_label.name))
              ELSE g1
        g3 == ir_visit_statement(g2, node.body)
        g4 == emit(g3, TACLabel(update_label.name))
        g5 == IF node.update # None THEN ir_visit_expression(g4, node.update).g ELSE g4
    IN emit(emit(g5, TACGoto(start_label.name)), TACLabel(end_label.name))

\* (the generator is read once, into now, when the visit begins)
ir_visit_statement(g, node) ==
    CHOOSE after \in
        {IF node.kind = "VarDecl" THEN ir_visit_var_decl(now, node)
         ELSE IF node.kind = "CompoundStmt" THEN ir_visit_compound_stmt(now, node)
         ELSE IF node.kind = "ExpressionStmt"
         THEN IF node.expression # None THEN ir_visit_expression(now, node.expression).g ELSE now
         ELSE IF node.kind = "ReturnStmt" THEN ir_visit_return_stmt(now, node)
         ELSE IF node.kind = "IfStmt" THEN ir_visit_if_stmt(now, node)
         ELSE IF node.kind = "WhileStmt" THEN ir_visit_while_stmt(now, node)
         ELSE IF node.kind = "ForStmt" THEN ir_visit_for_stmt(now, node)
         ELSE now : now \in {g}} : TRUE

ir_visit_function_decl(g, node) ==
    IF node.body # None
    THEN emit(ir_visit_compound_stmt(emit(g, TACFunctionStart(node.name)), node.body),
              TACFunctionEnd(node.name))
    ELSE g

\* one iteration of the loop of IntermediateCodeGenerator.visit_program
IrVisitDeclaration(g, decl) ==
    IF decl.kind = "FunctionDecl" THEN ir_visit_function_decl(g, decl)
    ELSE IF decl.kind = "VarDecl" THEN ir_visit_var_decl(g, decl)
    ELSE g

--------------------------------------------------------------------------
(* Code generator: src/code_generator.py *)

\* CodeGenerator.__init__: the generator's fields as a record c
CodeGenerator(instructions) ==
    [tac_instructions |-> instructions, assembly_code |-> <<>>,
     register_counter |-> 0, var_to_register |-> <<>>]

\* result of allocate_register: the generator state and the register
Allocated(c, reg) == [c |-> c, reg |-> reg]

\* an allocation that hands out a register without taking it
AllocateWithoutCounting(c, var) ==
    IF var \notin DOMAIN c.var_to_register
    THEN Allocated([c EXCEPT !.var_to_register =
                                (var :> (Chars("R") \o NatToStr(c.register_counter))) @@ @],
                   Chars("R") \o NatToStr(c.register_counter))
    ELSE Allocated(c, c.var_to_register[var])

allocate_register(c, var) ==
    IF var \notin DOMAIN c.var_to_register
    THEN LET reg == Chars("R") \o NatToStr(c.register_counter) IN
         Allocated([c EXCEPT !.register_counter = @ + 1,
                             !.var_to_register = (var :> reg) @@ @], reg)
    ELSE Allocated(c, c.var_to_register[var])

is_constant(value) ==
    IF FloatParses(value) THEN TRUE
    ELSE StartsWith(value, <<"\"">>) /\ value[Len(value)] = "\""

\* self.assembly_code.append(line)
Asm(c, asm_line) == [c EXCEPT !.assembly_code = Append(@, asm_line)]

op_map ==
    ( "+" :> Chars("ADD") ) @@ ( "-" :> Chars("SUB") ) @@ ( "*" :> Chars("MUL") ) @@ ( "/" :> Chars("DIV") ) @@
    ( "%" :> Chars("MOD") ) @@ ( "==" :> Chars("CMP_EQ") ) @@ ( "!=" :> Chars("CMP_NE") ) @@
    ( "<" :> Chars("CMP_LT") ) @@ ( ">" :> Chars("CMP_GT") ) @@ ( "<=" :> Chars("CMP_LE") ) @@
    ( ">=" :> Chars("CMP_GE") ) @@ ( "&&" :> Chars("AND") ) @@ ( "||" :> Chars("OR") )

\* op_map.get(instruction.op, 'OP')
OpCode(op) == IF op \in DOMAIN op_map THEN op_map[op] ELSE Chars("OP")

\* the prologue lines of a function start
FunctionPrologue(name) ==
    << Chars("\n; Function: ") \o name, name \o Chars(":"), Chars("    PUSH BP"), Chars("    MOV BP, SP") >>

GenFunctionStart(c, instruction) ==
    [c EXCEPT !.assembly_code = @ \o FunctionPrologue(instruction.name)]

GenFunctionEnd(c, instruction) ==
    [c EXCEPT !.assembly_code =
        @ \o << Chars("    MOV SP, BP"), Chars("    POP BP"), Chars("    RET"), Chars("; End of ") \o instruction.name >>]

GenAssign(c, instruction) ==
    LET r == allocate_register(c, instruction.result) IN
    IF is_constant(instruction.arg1)
    THEN Asm(r.c, Chars("    LOAD ") \o r.reg \o Chars(", #") \o instruction.arg1)
    ELSE LET a == allocate_register(r.c, instruction.arg1) IN
         Asm(a.c, Chars("    MOV ") \o r.reg \o Chars(", ") \o a.reg)

GenBinaryOp(c, instruction) ==
    LET r == allocate_register(c, instruction.result)
        const1 == is_constant(instruction.arg1)
        c1 == IF const1
              THEN Allocated(Asm(r.c, Chars("    LOAD ") \o r.reg \o Chars(", #") \o instruction.arg1),
                             r.reg)
              ELSE allocate_register(r.c, instruction.arg1)
        arg1_reg == c1.reg
        const2 == is_constant(instruction.arg2)
        c2 == IF const2 THEN Allocated(c1.c, <<"#">> \o instruction.arg2)
              ELSE allocate_register(c1.c, instruction.arg2)
        arg2_val == c2.reg
        op_code == OpCode(instruction.op)
    IN
    IF instruction.op \in {"==", "!=", "<", ">", "<=", ">="}
    THEN Asm(Asm(c2.c, Chars("    CMP ") \o arg1_reg \o Chars(", ") \o arg2_val),
             Chars("    ") \o op_code \o Chars(" ") \o r.reg)
    ELSE LET c3 == IF arg1_reg # r.reg
                   THEN Asm(c2.c, Chars("    MOV ") \o r.reg \o Chars(", ") \o arg1_reg)
                   ELSE c2.c
         IN Asm(c3, Chars("    ") \o op_code \o Chars(" ") \o r.reg \o Chars(", ") \o arg2_val)

GenUnaryOp(c, instruction) ==
    LET r == allocate_register(c, instruction.result)
        a == allocate_register(r.c, instruction.arg)
    IN
    IF instruction.op = "-"
    THEN Asm(a.c, Chars("    NEG ") \o r.reg \o Chars(", ") \o a.reg)
    ELSE IF instruction.op = "!"
         THEN Asm(a.c, Chars("    NOT ") \o r.reg \o Chars(", ") \o a.reg)
         ELSE a.c

GenIfGoto(c, instruction, jump) ==
    LET r == allocate_register(c, instruction.condition) IN
    Asm(Asm(r.c, Chars("    CMP ") \o r.reg \o Chars(", #0")), jump \o instruction.label)

GenParam(c, instruction) ==
    IF is_constant(instruction.arg)
    THEN Asm(c, Chars("    PUSH #") \o instruction.arg)
    ELSE LET a == allocate_register(c, instruction.arg) IN Asm(a.c, Chars("    PUSH ") \o a.reg)

\* a translation of a call that leaves the arguments on the stack
CallWithoutCleanup(c, instruction) ==
    LET c1 == Asm(c, Chars("    CALL ") \o instruction.function) IN
    IF instruction.result # NoneStr /\ instruction.result # <<>>
    THEN LET r == allocate_register(c1, instruction.result) IN
         Asm(r.c, Chars("    MOV ") \o r.reg \o Chars(", RAX"))
    ELSE c1

GenCall(c, instruction) ==
    LET c1 == Asm(c, Chars("    CALL ") \o instruction.function)
        c2 == IF instruction.n_args > 0
              THEN Asm(c1, Chars("    ADD SP, #") \o NatToStr(instruction.n_args * 4))
              ELSE c1
    IN
    IF instruction.result # NoneStr /\ instruction.result # <<>>
    THEN LET r == allocate_register(c2, instruction.result) IN
         Asm(r.c, Chars("    MOV ") \o r.reg \o Chars(", RAX"))
    ELSE c2

GenReturn(c, instruction) ==
    IF instruction.value # NoneStr /\ instruction.value # <<>>
    THEN IF is_constant(instruction.value)
         THEN Asm(c, Chars("    LOAD RAX, #") \o instruction.value)
         ELSE LET v == allocate_register(c, instruction.value) IN
              Asm(v.c, Chars("    MOV RAX, ") \o v.reg)
    ELSE c

generate_instruction(c, instruction) ==
    IF instruction.kind = "TACFunctionStart" THEN GenFunctionStart(c, instruction)
    ELSE IF instruction.kind = "TACFunctionEnd" THEN GenFunctionEnd(c, instruction)
    ELSE IF instruction.kind = "TACAssign" THEN GenAssign(c, instruction)
    ELSE IF instruction.kind = "TACBinaryOp" THEN GenBinaryOp(c, instruction)
    ELSE IF instruction.kind = "TACUnaryOp" THEN GenUnaryOp(c, instruction)
    ELSE IF instruction.kind = "TACLabel" THEN Asm(c, instruction.label \o Chars(":"))
    ELSE IF instruction.kind = "TACGoto" THEN Asm(c, Chars("    JMP ") \o instruction.label)
    ELSE IF instruction.kind = "TACIfGoto" THEN GenIfGoto(c, instruction, Chars("    JNE "))
    ELSE IF instruction.kind = "TACIfFalseGoto" THEN GenIfGoto(c, instruction, Chars("    JE "))
    ELSE IF instruction.kind = "TACParam" THEN GenParam(c, instruction)
    ELSE IF instruction.kind = "TACCall" THEN GenCall(c, instruction)
    ELSE IF instruction.kind = "TACReturn" THEN GenReturn(c, instruction)
    ELSE c

\* the three banner lines generate() starts with
GenerateBanner(c) == Asm(Asm(Asm(c, Chars("; Generated Assembly Code")), Chars("; Simplified RISC-style instructions")), <<>>)

\* a pattern that never matches: optimize keeps every line
NeverRedundant(asm_line) == FALSE

\* a pattern that looks at the mnemonic only: optimize drops every MOV line
AnyMoveRedundant(asm_line) == Contains(asm_line, Chars("MOV"))

\* the redundant-move pattern of optimize: the line is dropped
IsRedundantMove(asm_line) ==
    /\ Contains(asm_line, Chars("MOV"))
    /\ LET parts == Split(asm_line) IN
       /\ Len(parts) >= 3
       /\ RStripComma(parts[2]) = parts[3]

\* a line the while loop of optimize appends to optimized_code
IsKept(asm_line) == ~IsRedundantMove(asm_line)

\* optimize: the loop visits every line once, in order, drops the
\* redundant moves and counts them: [code, optimizations_made]
optimize(c) ==
    [code |-> SelectSeq(c.assembly_code, IsKept),
     optimizations_made |->
         Len(c.assembly_code) - Len(SelectSeq(c.assembly_code, IsKept))]

--------------------------------------------------------------------------
(* The programs the specifications draw their input from.  Each is an AST *)
(* the parser builds from some source text.                                *)

N_x == <<"x">>

N_y == <<"y">>

N_f == <<"f">>

N_g == <<"g">>

\* a user identifier spelled like the first generated temporary
N_t0 == <<"t", "0">>

Lit1 == IntLiteral(<<"1">>)

\* statements without a nested statement, for the semantic analyzer
SemSimple ==
    { VarDecl(Chars("int"), N_x, None),
      VarDecl(Chars("int"), N_y, Identifier(N_x)),
      ExpressionStmt(Assignment(N_x, Lit1)),
      ExpressionStmt(FunctionCall(N_f, <<Identifier(N_y)>>)),
      ReturnStmt(Identifier(N_x)),
      ReturnStmt(None),
      \* int g() { return y; } in statement position: parse_statement
      \* accepts a declaration there, a function declaration included
      FunctionDecl(Chars("int"), N_g, <<>>, CompoundStmt(<<ReturnStmt(Identifier(N_y))>>)) }

\* statements nested at most d deep around a simple statement
RECURSIVE SemStmts(_)
SemStmts(d) ==
    IF d = 0 THEN SemSimple
    ELSE LET inner == SemStmts(d - 1) IN
         SemSimple
         \cup { CompoundStmt(<<s>>) : s \in inner }
         \cup { CompoundStmt(<<VarDecl(Chars("int"), N_x, None), s>>) : s \in inner }
         \cup { IfStmt(Identifier(N_x), s, None) : s \in inner }
         \cup { IfStmt(Identifier(N_y), s, ReturnStmt(None)) : s \in inner }
         \cup { WhileStmt(Identifier(N_x), s) : s \in inner }
         \cup { ForStmt(None, None, None, s) : s \in inner }
         \cup { ForStmt(VarDecl(Chars("int"), N_x, None), Identifier(N_x),
                        Assignment(N_x, Lit1), s) : s \in inner }
         \cup { ForStmt(ExpressionStmt(Assignment(N_y, Lit1)), None, None, s) :
                    s \in inner }

SemBodies ==
    { None, CompoundStmt(<<>>) }
    \cup { CompoundStmt(<<s>>) : s \in SemStmts(MaxNest) }
    \cup { CompoundStmt(<<VarDecl(Chars("int"), N_x, None), s>>) : s \in SemStmts(MaxNest) }

SemParameterLists ==
    { <<>>, <<Parameter(Chars("int"), N_x)>>, <<Parameter(Chars("int"), N_x), Parameter(Chars("float"), N_x)>> }

SemFunctions ==
    { FunctionDecl(rt, N_f, ps, b) :
        rt \in {Chars("int"), Chars("void")}, ps \in SemParameterLists, b \in SemBodies }

\* the short declarations that come before or after the function
SemOthers ==
    { VarDecl(Chars("int"), N_x, None),
      VarDecl(Chars("int"), N_y, Identifier(N_x)),
      FunctionDecl(Chars("int"), N_f, <<>>, None),
      FunctionDecl(Chars("int"), N_g, <<>>, CompoundStmt(<<ReturnStmt(Identifier(N_y))>>)) }

N_c == <<"c">>

N_p == <<"p">>

\* char c; void p();
Prelude == <<VarDecl(Chars("char"), N_c, None), FunctionDecl(Chars("void"), N_p, <<>>, None)>>

\* expressions after the Prelude, each with the type visit_expression gives it
TypedSources ==
    { <<Lit1, Chars("int")>>,
      <<FloatLiteral(Chars("1.5")), Chars("float")>>,
      <<StringLiteral(Chars("s")), Chars("char*")>>,
      <<Identifier(N_c), Chars("char")>>,
      <<FunctionCall(N_p, <<>>), Chars("void")>>,
      <<Identifier(N_p), Chars("function:void")>>,
      <<Identifier(N_y), Chars("unknown")>> }

TargetTypes == {Chars("int"), Chars("float"), Chars("char"), Chars("void")}

\* T x = E;
InitProgram(target_type, expr) == Prelude \o <<VarDecl(target_type, N_x, expr)>>

\* T x; void f() { x = E; }
AssignProgram(target_type, expr) ==
    Prelude \o <<VarDecl(target_type, N_x, None),
                 FunctionDecl(Chars("void"), N_f, <<>>,
                              CompoundStmt(<<ExpressionStmt(Assignment(N_x, expr))>>))>>

\* T f() { return E; }
ReturnProgram(target_type, expr) ==
    Prelude \o <<FunctionDecl(target_type, N_f, <<>>, CompoundStmt(<<ReturnStmt(expr)>>))>>

TypePrograms ==
    UNION { {InitProgram(t, e[1]), AssignProgram(t, e[1]), ReturnProgram(t, e[1])} :
                t \in TargetTypes, e \in TypedSources }

SemPrograms ==
    { <<fn>> : fn \in SemFunctions }
    \cup { <<d, fn>> : d \in SemOthers, fn \in SemFunctions }
    \cup { <<fn, d>> : fn \in SemFunctions, d \in SemOthers }
    \cup TypePrograms

XPlus1 == BinaryOp("+", Identifier(N_x), Lit1)

XLess1 == BinaryOp("<", Identifier(N_x), Lit1)

GenExprs ==
    { Identifier(N_x),
      Assignment(N_x, Identifier(N_x)),
      Assignment(N_x, Lit1),
      Assignment(N_t0, XPlus1),
      BinaryOp("*", XPlus1, UnaryOp("-", Identifier(N_x))),
      XLess1,
      FunctionCall(N_f, <<Identifier(N_x), XPlus1>>),
      FunctionCall(N_g, <<>>),
      \* f(g(), f(1, x), x)
      FunctionCall(N_f, <<FunctionCall(N_g, <<>>),
                          FunctionCall(N_f, <<Lit1, Identifier(N_x)>>),
                          Identifier(N_x)>>) }

GenSimple ==
    { ExpressionStmt(e) : e \in GenExprs }
    \cup { VarDecl(Chars("int"), N_x, None),
           VarDecl(Chars("int"), N_x, Lit1),
           ReturnStmt(None),
           ReturnStmt(Identifier(N_x)),
           ReturnStmt(Lit1) }

RECURSIVE GenStmts(_)
GenStmts(d) ==
    IF d = 0 THEN GenSimple
    ELSE LET inner == GenStmts(d - 1) IN
         GenSimple
         \cup { CompoundStmt(<<s, ExpressionStmt(None)>>) : s \in inner }
         \cup { IfStmt(XLess1, s, None) : s \in inner }
         \cup { IfStmt(Identifier(N_x), s, ExpressionStmt(Assignment(N_x, Lit1))) :
                    s \in inner }
         \cup { WhileStmt(XLess1, s) : s \in inner }
         \cup { ForStmt(None, None, None, s) : s \in inner }
         \cup { ForStmt(VarDecl(Chars("int"), N_x, Lit1), XLess1, Assignment(N_x, XPlus1), s) :
                    s \in inner }

\* x = x + 1;
XIncrement == ExpressionStmt(Assignment(N_x, XPlus1))

\* loops around loops
GenLoops ==
    { WhileStmt(Identifier(N_x), WhileStmt(XLess1, XIncrement)),
      WhileStmt(XLess1, CompoundStmt(<<IfStmt(Identifier(N_x), ReturnStmt(Lit1), None),
                                       WhileStmt(Identifier(N_x), ExpressionStmt(None))>>)),
      WhileStmt(XLess1, ForStmt(None, XLess1, None, XIncrement)),
      ForStmt(ExpressionStmt(Assignment(N_x, Lit1)), XLess1, Assignment(N_x, XPlus1),
              ForStmt(None, None, None, XIncrement)),
      ForStmt(VarDecl(Chars("int"), N_x, None), None, Assignment(N_x, XPlus1),
              WhileStmt(XLess1, XIncrement)),
      ForStmt(None, XLess1, None, ExpressionStmt(None)),
      \* while (1) x = -5;
      WhileStmt(Lit1, ExpressionStmt(Assignment(N_x, UnaryOp("-", IntLiteral(<<"5">>))))) }

\* g(" #\" MOV");
CallWithString ==
    ExpressionStmt(FunctionCall(N_g, <<StringLiteral(Chars(" #\" MOV"))>>))

GenBodies ==
    { CompoundStmt(<<s>>) : s \in GenStmts(MaxNest) }
    \cup { CompoundStmt(<<CallWithString>>),
           CompoundStmt(<<ExpressionStmt(Assignment(N_x, Identifier(N_x))), CallWithString>>) }
    \cup { CompoundStmt(<<ExpressionStmt(FunctionCall(N_g, <<>>)), s>>) :
               s \in GenStmts(MaxNest) }
    \cup { CompoundStmt(<<loop>>) : loop \in GenLoops }
    \cup { CompoundStmt(<<WhileStmt(XLess1, ReturnStmt(Identifier(N_x))), loop>>) :
               loop \in GenLoops }

GenFunctions == { FunctionDecl(Chars("int"), N_f, <<Parameter(Chars("int"), N_x)>>, b) : b \in GenBodies }

GenOthers ==
    { VarDecl(Chars("int"), N_x, Lit1),
      FunctionDecl(Chars("int"), N_g, <<>>, None),
      FunctionDecl(Chars("int"), N_g, <<>>,
                   CompoundStmt(<<IfStmt(XLess1, ReturnStmt(Lit1), None)>>)) }

\* int L0(int x) { while (x) x = x + 1; }
FunctionNamedL0 ==
    FunctionDecl(Chars("int"), Chars("L0"), <<Parameter(Chars("int"), N_x)>>,
                 CompoundStmt(<<WhileStmt(Identifier(N_x), XIncrement)>>))

GenPrograms ==
    { <<fn>> : fn \in GenFunctions }
    \cup { <<FunctionNamedL0>> }
    \cup { <<d, fn>> : d \in GenOthers, fn \in GenFunctions }
    \cup { <<fn, d>> : fn \in GenFunctions, d \in GenOthers }

--------------------------------------------------------------------------
(* Idle values: a specification that does not run a stage leaves that     *)
(* stage's variables at these values.                                      *)

LexIdle ==
    /\ source = <<>>
    /\ position = 0
    /\ line = 1
    /\ column = 1
    /\ tokens = <<>>
    /\ lexState = "idle"
    /\ lexError = None

SemIdle ==
    /\ analyzer = SemFresh
    /\ semIdx = 0
    /\ semState = "idle"
    /\ semRaised = None
    /\ opened = GlobalFrameOnly
    /\ tableCall = NoCall

DrvIdle ==
    /\ parseState = "idle"
    /\ parseError = None
    /\ current = 0
    /\ show_stages = FALSE
    /\ drvState = "idle"
    /\ handler = "none"
    /\ returnValue = FALSE

GenIdle ==
    /\ irgen = IrFresh
    /\ irIdx = 0
    /\ codegen = CodeGenerator(<<>>)
    /\ cgIdx = 0
    /\ genState = "idle"
    /\ optimizations_made = 0

--------------------------------------------------------------------------
(* Lexer.tokenize, one iteration of its main loop at a time *)

\* the lexer's fields as one record, and back
LexerNow == [cur |-> Cursor(position, line, column), tokens |-> tokens,
             state |-> lexState, error |-> lexError]

LexerBecomes(lx) ==
    /\ position' = lx.cur.position
    /\ line' = lx.cur.line
    /\ column' = lx.cur.column
    /\ tokens' = lx.tokens
    /\ lexState' = lx.state
    /\ lexError' = lx.error
    /\ UNCHANGED source
    /\ UNCHANGED <<ast, semVars, genVars, drvVars>>

\* Lexer.__init__
LexerInit(src) ==
    /\ source = src
    /\ position = 0
    /\ line = 1
    /\ column = 1
    /\ tokens = <<>>
    /\ lexState = "running"
    /\ lexError = None

\* an iteration of tokenize that scans a token or skips a comment
LexScan ==
    /\ lexState = "running"
    /\ \E lx \in {TokenizeStep(source, LexerNow)} :
          lx.state = "running" /\ LexerBecomes(lx)

\* an iteration of tokenize in which Lexer.error raises
LexRaise ==
    /\ lexState = "running"
    /\ \E lx \in {TokenizeStep(source, LexerNow)} :
          lx.state = "raised" /\ LexerBecomes(lx)

\* the end of tokenize: the loop is left, EOF is appended, tokens returned
LexReturn ==
    /\ lexState = "running"
    /\ \E lx \in {TokenizeStep(source, LexerNow)} :
          lx.state = "returned" /\ LexerBecomes(lx)

\* all strings over an alphabet up to a length
StringsUpTo(alphabet, n) == UNION {[1..k -> alphabet] : k \in 0..n}

LexSources == StringsUpTo(SrcAlphabet, MaxSrcLen)

InitLex ==
    /\ \E src \in LexSources : LexerInit(src)
    /\ ast = <<>>
    /\ SemIdle
    /\ GenIdle
    /\ DrvIdle

NextLex == LexScan \/ LexRaise \/ LexReturn

SpecLex == InitLex /\ [][NextLex]_vars

\* lexer = Lexer(source_code): the driver constructs the lexer on a source
LexNew ==
    /\ lexState = "idle"
    /\ \E src \in LexSources : source' = src
    /\ lexState' = "running"
    /\ UNCHANGED <<position, line, column, tokens, lexError>>
    /\ UNCHANGED <<ast, semVars, genVars, drvVars>>

InitLexFair ==
    /\ LexIdle
    /\ ast = <<>>
    /\ SemIdle
    /\ GenIdle
    /\ DrvIdle

NextLexFair == LexNew \/ LexScan \/ LexRaise \/ LexReturn

\* the lexer is constructed and tokenize is a sequential loop of a running
\* program: a step that can be taken is taken
SpecLexFair == InitLexFair /\ [][NextLexFair]_vars /\ WF_vars(NextLexFair)

--------------------------------------------------------------------------
(* SemanticAnalyzer.analyze, one declaration of visit_program at a time *)

\* the loop of visit_program visits the next declaration
SemVisit ==
    /\ semState = "walking"
    /\ analyzer.exc = None
    /\ semIdx < Len(ast)
    /\ analyzer' = VisitDeclaration(analyzer, ast[semIdx + 1])
    /\ semIdx' = semIdx + 1
    /\ UNCHANGED <<ast, semState, semRaised, opened, tableCall>>
    /\ UNCHANGED <<lexVars, genVars, drvVars>>

\* visit_program is over (or a SemanticError escaped it)
WalkOver == semIdx = Len(ast) \/ analyzer.exc # None

\* the end of analyze with errors recorded: SemanticError is raised
SemRaise ==
    /\ semState = "walking"
    /\ WalkOver
    /\ CatchSemanticError(analyzer).errors # <<>>
    /\ analyzer' = CatchSemanticError(analyzer)
    /\ semState' = "raised"
    /\ semRaised' = SemanticError(Chars("Semantic analysis failed"))
    /\ UNCHANGED <<ast, semIdx, opened, tableCall>>
    /\ UNCHANGED <<lexVars, genVars, drvVars>>

\* the end of analyze without errors: it returns
SemReturn ==
    /\ semState = "walking"
    /\ WalkOver
    /\ CatchSemanticError(analyzer).errors = <<>>
    /\ analyzer' = CatchSemanticError(analyzer)
    /\ semState' = "returned"
    /\ UNCHANGED <<ast, semIdx, semRaised, opened, tableCall>>
    /\ UNCHANGED <<lexVars, genVars, drvVars>>

InitSem ==
    /\ ast \in SemPrograms
    /\ analyzer = SemFresh
    /\ semIdx = 0
    /\ semState = "walking"
    /\ semRaised = None
    /\ opened = GlobalFrameOnly
    /\ tableCall = NoCall
    /\ LexIdle
    /\ GenIdle
    /\ DrvIdle

NextSem == SemVisit \/ SemRaise \/ SemReturn

SpecSem == InitSem /\ [][NextSem]_vars

--------------------------------------------------------------------------
(* A SymbolTable driven on its own: a client calls its four methods in    *)
(* any order, with the scope names, names and types the analyzer uses     *)

\* the scope names the analyzer passes to enter_scope
ScopeNames == {Chars("function:") \o N_f, Chars("for"), Chars("block")}

TableNames == {N_x, N_y}

TableTypes == {Chars("int"), Chars("float")}

Called(op, name, result, popped) ==
    [op |-> op, name |-> name, result |-> result, before |-> analyzer.scopes,
     popped |-> popped, count |-> tableCall.count + 1]

\* symbol_table.enter_scope(scope_name)
TableEnter ==
    /\ tableCall.count < MaxCalls
    /\ Len(analyzer.scopes) < MaxFrames
    /\ \E scope_name \in ScopeNames :
          /\ analyzer' = enter_scope(analyzer, scope_name)
          /\ opened' = Append(opened, [label |-> scope_name, below |-> analyzer.scopes])
          /\ tableCall' = Called("enter_scope", scope_name, None, None)
    /\ UNCHANGED <<lexVars, ast, semIdx, semState, semRaised, genVars, drvVars>>

\* symbol_table.exit_scope()
TableExit ==
    /\ tableCall.count < MaxCalls
    /\ analyzer' = exit_scope(analyzer)
    /\ opened' = IF Len(opened) > 1 THEN SubSeq(opened, 1, Len(opened) - 1) ELSE opened
    /\ tableCall' = Called("exit_scope", NoneStr, None,
                           IF Len(opened) > 1 THEN opened[Len(opened)] ELSE None)
    /\ UNCHANGED <<lexVars, ast, semIdx, semState, semRaised, genVars, drvVars>>

\* symbol_table.declare(name, symbol_type); the client catches the
\* SemanticError it may raise, which is kept as the result of the call
TableDeclare ==
    /\ tableCall.count < MaxCalls
    /\ \E name \in TableNames, symbol_type \in TableTypes :
          /\ analyzer' = [declare(analyzer, name, symbol_type) EXCEPT !.exc = None]
          /\ tableCall' = Called("declare", name, declare(analyzer, name, symbol_type).exc, None)
    /\ UNCHANGED <<lexVars, ast, semIdx, semState, semRaised, opened, genVars, drvVars>>

\* symbol_table.lookup(name)
TableLookup ==
    /\ tableCall.count < MaxCalls
    /\ \E name \in TableNames :
          tableCall' = Called("lookup", name, lookup(analyzer, name), None)
    /\ UNCHANGED <<lexVars, ast, analyzer, semIdx, semState, semRaised, opened, genVars, drvVars>>

InitTable ==
    /\ ast = <<>>
    /\ SemIdle
    /\ LexIdle
    /\ GenIdle
    /\ DrvIdle

NextTable == TableEnter \/ TableExit \/ TableDeclare \/ TableLookup

SpecTable == InitTable /\ [][NextTable]_vars

--------------------------------------------------------------------------
(* IntermediateCodeGenerator.generate, then CodeGenerator.generate and    *)
(* CodeGenerator.optimize over its instructions                            *)

\* the loop of visit_program lowers the next declaration
IrVisit ==
    /\ genState = "ir"
    /\ irIdx < Len(ast)
    /\ irgen' = IrVisitDeclaration(irgen, ast[irIdx + 1])
    /\ irIdx' = irIdx + 1
    /\ UNCHANGED <<ast, codegen, cgIdx, genState, optimizations_made>>
    /\ UNCHANGED <<lexVars, semVars, drvVars>>

\* CodeGenerator(code_gen.instructions) and the banner of generate
CgStart ==
    /\ genState = "ir"
    /\ irIdx = Len(ast)
    /\ codegen' = GenerateBanner(CodeGenerator(irgen.instructions))
    /\ cgIdx' = 0
    /\ genState' = "codegen"
    /\ UNCHANGED <<ast, irgen, irIdx, optimizations_made>>
    /\ UNCHANGED <<lexVars, semVars, drvVars>>

\* the loop of generate translates the next TAC instruction
CgInstruction ==
    /\ genState = "codegen"
    /\ cgIdx < Len(codegen.tac_instructions)
    /\ codegen' = generate_instruction(codegen, codegen.tac_instructions[cgIdx + 1])
    /\ cgIdx' = cgIdx + 1
    /\ UNCHANGED <<ast, irgen, irIdx, genState, optimizations_made>>
    /\ UNCHANGED <<lexVars, semVars, drvVars>>

\* generate returns
CgGenerated ==
    /\ genState = "codegen"
    /\ cgIdx = Len(codegen.tac_instructions)
    /\ genState' = "generated"
    /\ UNCHANGED <<ast, irgen, irIdx, codegen, cgIdx, optimizations_made>>
    /\ UNCHANGED <<lexVars, semVars, drvVars>>

\* CodeGenerator.optimize
CgOptimize ==
    /\ genState = "generated"
    /\ codegen' = [codegen EXCEPT !.assembly_code = optimize(codegen).code]
    /\ optimizations_made' = optimize(codegen).optimizations_made
    /\ genState' = "optimized"
    /\ UNCHANGED <<ast, irgen, irIdx, cgIdx>>
    /\ UNCHANGED <<lexVars, semVars, drvVars>>

InitGen ==
    /\ ast \in GenPrograms
    /\ irgen = IrFresh
    /\ irIdx = 0
    /\ codegen = CodeGenerator(<<>>)
    /\ cgIdx = 0
    /\ genState = "ir"
    /\ optimizations_made = 0
    /\ LexIdle
    /\ SemIdle
    /\ DrvIdle

NextGen == IrVisit \/ CgStart \/ CgInstruction \/ CgGenerated \/ CgOptimize

SpecGen == InitGen /\ [][NextGen]_vars

--------------------------------------------------------------------------
(* compile_c_code: src/compiler.py.  The stages run as the actions above; *)
(* the actions below are the driver's calls between them, its return and  *)
(* its except clauses.                                                     *)

\* the source texts handed to compile_c_code
DriverSources ==
    { Chars(""),
      Chars("int main() { return 0; }"),
      Chars("int main() { return undefined_var; }"),
      Chars("int main( { }"),
      Chars("int main() { return 1 }"),
      Chars("int main() { 1 = 2; }"),
      Chars("int x = @;"),
      Chars("char c = \"s;"),
      Chars("int x; int x;"),
      Chars("/* c */ int g = 1; // end"),
      Chars("int f(int x) { x = x; return x; }"),
      Chars("int f(int n) { if (n <= 1) return 1; return n * f(n - 1); }"),
      Chars("int f(int i) { for (i = 0; i < 3; i = i + 1) { } while (i) i = i - 1; return i; }"),
      Chars("float h(float a, float b) { return a / b + 0.5; }"),
      Chars("void p(); int main() { p(); return; }") }

\* an iteration of the loop of parse: parse_declaration returns a declaration
ParseDeclaration ==
    /\ parseState = "running"
    /\ CurrentToken(tokens, current).type # "EOF"
    /\ \E decl \in {parse_declaration(tokens, current)} :
          /\ decl.error = None
          /\ ast' = Append(ast, decl.node)
          /\ current' = decl.pos
    /\ UNCHANGED <<parseState, parseError>>
    /\ UNCHANGED <<lexVars, semVars, genVars, show_stages, drvState, handler, returnValue>>

\* an iteration of the loop of parse in which Parser.error raises
ParseRaise ==
    /\ parseState = "running"
    /\ CurrentToken(tokens, current).type # "EOF"
    /\ \E decl \in {parse_declaration(tokens, current)} :
          /\ decl.error # None
          /\ parseError' = decl.error
          /\ current' = decl.pos
    /\ parseState' = "raised"
    /\ UNCHANGED <<lexVars, ast, semVars, genVars, show_stages, drvState, handler, returnValue>>

\* the current token is EOF: the loop is left and parse returns the Program
ParseReturn ==
    /\ parseState = "running"
    /\ CurrentToken(tokens, current).type = "EOF"
    /\ parseState' = "returned"
    /\ UNCHANGED <<parseError, current>>
    /\ UNCHANGED <<lexVars, ast, semVars, genVars, show_stages, drvState, handler, returnValue>>

\* parser = Parser(tokens); parser.parse() begins: its loop is the actions
\* ParseDeclaration, ParseRaise and ParseReturn
DrvParse ==
    /\ drvState = "running"
    /\ lexState = "returned"
    /\ parseState = "idle"
    /\ parseState' = "running"
    /\ current' = 0
    /\ ast' = <<>>
    /\ UNCHANGED <<lexVars, semVars, genVars, parseError, show_stages, drvState, handler,
                   returnValue>>

\* semantic_analyzer = SemanticAnalyzer(); semantic_analyzer.analyze(ast) begins
DrvAnalyze ==
    /\ drvState = "running"
    /\ parseState = "returned"
    /\ semState = "idle"
    /\ analyzer' = SemFresh
    /\ semIdx' = 0
    /\ semState' = "walking"
    /\ UNCHANGED <<lexVars, ast, semRaised, opened, tableCall, genVars, drvVars>>

\* code_gen = IntermediateCodeGenerator(); code_gen.generate(ast) begins
DrvGenerate ==
    /\ drvState = "running"
    /\ semState = "returned"
    /\ genState = "idle"
    /\ irgen' = IrFresh
    /\ irIdx' = 0
    /\ genState' = "ir"
    /\ UNCHANGED <<lexVars, ast, semVars, codegen, cgIdx, optimizations_made, drvVars>>

\* return True at the end of the try block
DrvReturn ==
    /\ drvState = "running"
    /\ genState = "optimized"
    /\ drvState' = "returned"
    /\ returnValue' = TRUE
    /\ UNCHANGED <<lexVars, ast, semVars, genVars, parseState, parseError, current, show_stages, handler>>

\* the exception a stage has raised inside the try block, or None
Raised ==
    IF lexState = "raised" THEN lexError
    ELSE IF parseState = "raised" THEN parseError
    ELSE IF semState = "raised" THEN semRaised
    ELSE None

\* a driver that has only the except SyntaxError clause
OnlyExceptSyntaxError(exc) == IF exc.kind = "SyntaxError" THEN "SyntaxError" ELSE "none"

\* the except clause that catches exc: except SyntaxError, then except
\* Exception, of which SemanticError is a subclass
ExceptClause(exc) ==
    IF exc.kind = "SyntaxError" THEN "SyntaxError"
    ELSE IF exc.kind = "SemanticError" THEN "Exception"
    ELSE "none"

\* an except clause catches the exception and returns False; an exception no
\* clause catches propagates to the caller
DrvExcept ==
    /\ drvState = "running"
    /\ Raised # None
    /\ handler' = ExceptClause(Raised)
    /\ drvState' = IF ExceptClause(Raised) = "none" THEN "propagated" ELSE "returned"
    /\ returnValue' = FALSE
    /\ UNCHANGED <<lexVars, ast, semVars, genVars, parseState, parseError, current, show_stages>>

\* compile_c_code(source_code, show_stages) has entered its try block and
\* constructed the Lexer
InitDriver ==
    /\ \E src \in DriverSources : LexerInit(src)
    /\ show_stages \in BOOLEAN
    /\ drvState = "running"
    /\ parseState = "idle"
    /\ parseError = None
    /\ current = 0
    /\ handler = "none"
    /\ returnValue = FALSE
    /\ ast = <<>>
    /\ SemIdle
    /\ GenIdle

NextDriver ==
    \/ LexScan \/ LexRaise \/ LexReturn
    \/ DrvParse \/ ParseDeclaration \/ ParseRaise \/ ParseReturn
    \/ DrvAnalyze \/ SemVisit \/ SemRaise \/ SemReturn
    \/ DrvGenerate \/ IrVisit \/ CgStart \/ CgInstruction \/ CgGenerated \/ CgOptimize
    \/ DrvReturn \/ DrvExcept

SpecDriver == InitDriver /\ [][NextDriver]_vars

--------------------------------------------------------------------------
(* Parser.parse on the tokens of a source, one iteration of its loop over  *)
(* the top-level declarations at a time                                    *)

\* Lexer(src).tokenize() run to its end
RECURSIVE TokenizeFrom(_, _)
TokenizeFrom(src, lx) ==
    IF lx.state = "running" THEN TokenizeFrom(src, TokenizeStep(src, lx)) ELSE lx

Tokenize(src) ==
    TokenizeFrom(src, [cur |-> Cursor(0, 1, 1), tokens |-> <<>>,
                       state |-> "running", error |-> None])

\* complete programs, each on one line
ParsePrograms ==
    { Chars("int f(int a, int b) { if (a < b) { return a; } else return f(b, a); }"),
      Chars("int g; void p(); int main() { int i = 0; for (i = 0; i < 3; i = i + 1) { } while (i) i = i - 1; p(); return; }") }

\* a program cut in front of one of its tokens (in front of EOF: not cut)
PrefixSources ==
    UNION { { SubSeq(program, 1, Tokenize(program).tokens[k].column - 1) :
                k \in 1..Len(Tokenize(program).tokens) } : program \in ParsePrograms }

\* sources with a token that does not match before the end of the input,
\* each with the column of that token
MismatchTable ==
    { <<Chars("int main( { }"), 11>>,
      <<Chars("int main() { return 1 }"), 23>>,
      <<Chars("int 5;"), 5>>,
      <<Chars("x = 1;"), 1>>,
      <<Chars("int f(int) { }"), 10>>,
      <<Chars("int main() { f(1 2); }"), 18>>,
      <<Chars("int main() { 1(2); }"), 15>>,
      <<Chars("int main() { if x) ; }"), 17>>,
      <<Chars("int main() { } }"), 16>> }

MismatchSources == {entry[1] : entry \in MismatchTable}

\* the prefixes that are sequences of complete declarations
CompleteSources ==
    ParsePrograms \cup {Chars(""), Chars("int g; "), Chars("int g; void p(); ")}

\* left operands of an assignment, each with the name the Assignment node
\* gets, or with NoneStr when the operand is no assignment target
AssignTable ==
    { <<Chars("a"), <<"a">> >>,
      <<Chars("(a)"), <<"a">> >>,
      <<Chars("b = a"), <<"b">> >>,
      <<Chars("1"), NoneStr>>,
      <<Chars("1.5"), NoneStr>>,
      <<Chars("\"s\""), NoneStr>>,
      <<Chars("a + 1"), NoneStr>>,
      <<Chars("a * b"), NoneStr>>,
      <<Chars("a < b"), NoneStr>>,
      <<Chars("a || b"), NoneStr>>,
      <<Chars("(a + 1)"), NoneStr>>,
      <<Chars("-a"), NoneStr>>,
      <<Chars("!a"), NoneStr>>,
      <<Chars("f(a)"), NoneStr>>,
      <<Chars("(f())"), NoneStr>>,
      <<Chars("a = 1"), NoneStr>> }

\* int f() { <left> = 1; }
AssignSource(left) == Chars("int f() { ") \o left \o Chars(" = 1; }")

AssignSources == {AssignSource(entry[1]) : entry \in AssignTable}

N_a == <<"a">>

N_v == <<"v">>

\* the level of the grammar that derives an expression node: assignment 1,
\* the binary operators 2 to 7, prefix operators 8, call 9, primary 10
LevelOf(node) ==
    IF node.kind = "Assignment" THEN 1
    ELSE IF node.kind = "BinaryOp"
    THEN (IF node.operator = "||" THEN 2
          ELSE IF node.operator = "&&" THEN 3
          ELSE IF node.operator \in {"==", "!="} THEN 4
          ELSE IF node.operator \in {"<", ">", "<=", ">="} THEN 5
          ELSE IF node.operator \in {"+", "-"} THEN 6
          ELSE 7)
    ELSE IF node.kind = "UnaryOp" THEN 8
    ELSE IF node.kind = "FunctionCall" THEN 9
    ELSE 10

\* the text of an expression node where an operand of the given level is
\* required: parentheses where the grammar needs them, and around every
\* operation when full
RECURSIVE Unparse(_, _, _)
RECURSIVE UnparseArguments(_, _, _)
UnparseArguments(arguments, i, full) ==
    IF i > Len(arguments) THEN <<>>
    ELSE (IF i > 1 THEN Chars(", ") ELSE <<>>)
         \o Unparse(arguments[i], 1, full) \o UnparseArguments(arguments, i + 1, full)

Bare(node, full) ==
    IF node.kind = "Assignment"
    THEN node.target \o Chars(" = ") \o Unparse(node.value, 1, full)
    ELSE IF node.kind = "BinaryOp"
    THEN Unparse(node.left, LevelOf(node), full) \o Chars(" ") \o Chars(node.operator)
         \o Chars(" ") \o Unparse(node.right, LevelOf(node) + 1, full)
    ELSE IF node.kind = "UnaryOp"
    THEN Chars(node.operator) \o Chars(" ") \o Unparse(node.operand, 8, full)
    ELSE IF node.kind = "FunctionCall"
    THEN node.name \o Chars("(") \o UnparseArguments(node.arguments, 1, full) \o Chars(")")
    ELSE IF node.kind = "Identifier" THEN node.name
    ELSE node.value

Unparse(node, required, full) ==
    IF LevelOf(node) < required \/ (full /\ LevelOf(node) < 9)
    THEN Chars("(") \o Bare(node, full) \o Chars(")")
    ELSE Bare(node, full)

\* expression trees: operands, one operation, an operation of operations
ExprLeaves == {Identifier(N_a), Lit1}

ExprOperators == {"||", "&&", "==", "<", "-", "*"}

ExprInner ==
    ExprLeaves
    \cup {BinaryOp(op, Identifier(N_a), Lit1) : op \in ExprOperators}
    \cup {UnaryOp(op, Identifier(N_a)) : op \in {"-", "!"}}
    \cup {Assignment(N_a, Lit1), FunctionCall(N_f, <<Identifier(N_a)>>)}

ExprTrees ==
    ExprInner
    \cup {BinaryOp(op, l, r) : op \in ExprOperators, l \in ExprInner, r \in ExprInner}
    \cup {UnaryOp(op, e) : op \in {"-", "!"}, e \in ExprInner}
    \cup {Assignment(N_a, e) : e \in ExprInner}
    \cup {FunctionCall(N_f, <<e, Lit1>>) : e \in ExprInner}

\* int v = <expression>;
ExprSource(text) == Chars("int v = ") \o text \o Chars(";")

ExprSources ==
    {ExprSource(Unparse(e, 1, full)) : e \in ExprTrees, full \in BOOLEAN}

ParseSources == PrefixSources \cup MismatchSources \cup AssignSources \cup ExprSources

\* parser = Parser(tokens), after lexer.tokenize() has returned the tokens
InitParse ==
    /\ \E src \in ParseSources :
          \E lx \in {Tokenize(src)} :
             /\ source = src
             /\ position = lx.cur.position
             /\ line = lx.cur.line
             /\ column = lx.cur.column
             /\ tokens = lx.tokens
             /\ lexState = lx.state
             /\ lexError = lx.error
             /\ lx.state = "returned"
    /\ ast = <<>>
    /\ parseState = "running"
    /\ parseError = None
    /\ current = 0
    /\ show_stages = FALSE
    /\ drvState = "idle"
    /\ handler = "none"
    /\ returnValue = FALSE
    /\ SemIdle
    /\ GenIdle

NextParse == ParseDeclaration \/ ParseRaise \/ ParseReturn

SpecParse == InitParse /\ [][NextParse]_vars

\* parse is a sequential loop of a running program: an iteration that can
\* be taken is taken
SpecParseFair == SpecParse /\ WF_vars(NextParse)

--------------------------------------------------------------------------
(* Properties of the lexer, checked under SpecLex *)

\* C1 (token terminator): the token list tokenize returns is not empty, its
\* last token has type EOF, and no token before the last has type EOF.
C1_TokenTerminator ==
    lexState = "returned" =>
        /\ Len(tokens) >= 1
        /\ tokens[Len(tokens)].type = "EOF"
        /\ \A i \in 1..(Len(tokens) - 1) : tokens[i].type # "EOF"

\* tokenize has returned a list with tokens before the EOF token
C1_Witness ==
    /\ lexState = "returned"
    /\ Len(tokens) >= 3
    /\ tokens[Len(tokens)].type = "EOF"

\* newlines among the first n characters of src
NewlinesIn(src, n) == Cardinality({i \in 1..n : src[i] = "\n"})

\* index of the last newline among the first n characters of src, or 0
LastNewline(src, n) ==
    LET at == {i \in 1..n : src[i] = "\n"} IN
    IF at = {} THEN 0 ELSE CHOOSE i \in at : \A j \in at : j <= i

\* (line, column) of a comes no later than that of b
PosLeq(a, b) == a.line < b.line \/ (a.line = b.line /\ a.column <= b.column)

\* C2 (position monotonicity): the (line, column) pairs of the emitted tokens
\* are non-decreasing in lexicographic order along the token list and are all
\* at least 1; and the lexer's line is 1 plus the newlines it has advanced
\* past, its column 1 plus the characters advanced past since the last such
\* newline (every advance past a newline adds one to line and resets column
\* to 1, every other advance adds one to column).
C2_PositionMonotone ==
    /\ \A i \in 1..Len(tokens) : tokens[i].line >= 1 /\ tokens[i].column >= 1
    /\ \A i, j \in 1..Len(tokens) : i < j => PosLeq(tokens[i], tokens[j])
    /\ line = 1 + NewlinesIn(source, position)
    /\ column = 1 + position - LastNewline(source, position)

\* a later token stands on a later line at a smaller column than an earlier
\* one: the lexer has advanced past a newline between them
C2_Witness ==
    /\ lexState = "returned"
    /\ \E i, j \in 1..Len(tokens) :
           /\ i < j
           /\ tokens[j].line > tokens[i].line
           /\ tokens[j].column < tokens[i].column

--------------------------------------------------------------------------
(* Properties of the semantic analyzer, checked under SpecSem *)

\* analyze has finished, by returning or by raising
AnalyzeFinished == semState \in {"returned", "raised"}

\* the names the top-level declarations of the program declare
TopLevelNames == {ast[i].name : i \in 1..Len(ast)}

\* the messages of the error list as a set
RecordedErrors == {analyzer.errors[i] : i \in 1..Len(analyzer.errors)}

\* the message declare raises for name
AlreadyDeclared(name) ==
    Chars("Variable '") \o name \o Chars("' already declared in this scope")

\* the names the programs use
ProgramNames == {Chars("x"), Chars("y"), Chars("f"), Chars("g")}

\* C3 (scope balance): after analyze finishes on any Program, by returning or
\* by raising SemanticError, the scope stack holds exactly one frame, the
\* global frame (its names are those the top-level declarations declare), and
\* every enter_scope has been matched by one exit_scope.
C3_ScopeBalance ==
    AnalyzeFinished =>
        /\ Len(analyzer.scopes) = 1
        /\ DOMAIN analyzer.scopes[1] = TopLevelNames
        /\ analyzer.entered = analyzer.exited

\* analyze has raised on a program of one function without parameters whose
\* body is one statement: the function entered a nested scope and recorded
\* a redeclaration inside it
C3_Witness ==
    /\ semState = "raised"
    /\ Len(ast) = 1
    /\ ast[1].parameters = <<>>
    /\ ast[1].body # None
    /\ Len(ast[1].body.statements) = 1
    /\ analyzer.entered >= 2
    /\ AlreadyDeclared(Chars("x")) \in RecordedErrors
    /\ Len(analyzer.scopes) = 1

\* the statements a walk of node reaches, node included
RECURSIVE WalkSize(_)
RECURSIVE WalkSizeAll(_, _)
WalkSizeAll(nodes, i) ==
    IF i > Len(nodes) THEN 0 ELSE WalkSize(nodes[i]) + WalkSizeAll(nodes, i + 1)

WalkSize(node) ==
    IF node = None THEN 0
    ELSE IF node.kind = "CompoundStmt" THEN 1 + WalkSizeAll(node.statements, 1)
    ELSE IF node.kind = "IfStmt" THEN 1 + WalkSize(node.then_stmt) + WalkSize(node.else_stmt)
    ELSE IF node.kind = "WhileStmt" THEN 1 + WalkSize(node.body)
    ELSE IF node.kind = "ForStmt" THEN 1 + WalkSize(node.init) + WalkSize(node.body)
    ELSE 1

\* the declarations and statements a walk of the program reaches: a
\* top-level function with its body, any other node as a statement
RECURSIVE ProgramWalkSize(_, _)
ProgramWalkSize(declarations, i) ==
    IF i > Len(declarations) THEN 0
    ELSE (IF declarations[i].kind = "FunctionDecl" /\ declarations[i].body # None
          THEN 1 + WalkSizeAll(declarations[i].body.statements, 1)
          ELSE 1)
         + ProgramWalkSize(declarations, i + 1)

\* C9 (error accumulation): analyze never raises before the whole Program
\* has been walked: no SemanticError escapes a visit, every declaration and
\* statement of the program is visited whatever errors were recorded on the
\* way, and SemanticError is raised, once and after the walk, if and only if
\* the error list is not empty.
C9_ErrorsAccumulate ==
    /\ analyzer.exc = None
    /\ semState = "walking" => semRaised = None
    /\ AnalyzeFinished =>
          /\ semIdx = Len(ast)
          /\ analyzer.visited = ProgramWalkSize(ast, 1)
          /\ (semState = "raised") = (analyzer.errors # <<>>)
          /\ (semRaised # None) = (analyzer.errors # <<>>)

\* analyze has raised after recording a redeclaration followed by at least
\* one more error, on a walk of at least four declarations and statements
C9_Witness ==
    /\ semState = "raised"
    /\ analyzer.visited >= 4
    /\ \E i, j \in 1..Len(analyzer.errors) :
           /\ i < j
           /\ \E n \in ProgramNames : analyzer.errors[i] = AlreadyDeclared(n)

\* C10 (diagnostics in the raised error): when analysis fails, the message
\* of the SemanticError analyze raises carries the recorded diagnostics:
\* for an undefined variable v it mentions "undefined" and v, for a
\* redeclaration of x it mentions "already declared" and x.
C10_RaisedMessageCarriesDiagnostics ==
    semState = "raised" =>
        \A n \in ProgramNames :
            /\ (Chars("Undefined variable: '") \o n \o Chars("'")) \in RecordedErrors
                  => /\ Contains(Lower(semRaised.message), Chars("undefined"))
                     /\ Contains(semRaised.message, n)
            /\ AlreadyDeclared(n) \in RecordedErrors
                  => /\ Contains(semRaised.message, Chars("already declared"))
                     /\ Contains(semRaised.message, n)

\* analyze has raised with an undefined-variable diagnostic on its error list
C10_Witness ==
    /\ semState = "raised"
    /\ (Chars("Undefined variable: '") \o Chars("x") \o Chars("'")) \in RecordedErrors
    /\ semRaised.message = Chars("Semantic analysis failed")

--------------------------------------------------------------------------
(* Properties of the IR generator and the code generator, checked under   *)
(* SpecGen                                                                  *)

\* the TAC list generated so far
Tac == irgen.instructions

\* positions of the TAC instructions whose result is name
ResultsNamed(name) ==
    {i \in 1..Len(Tac) :
        /\ Tac[i].kind \in {"TACAssign", "TACBinaryOp", "TACUnaryOp", "TACCall"}
        /\ Tac[i].result = name}

\* positions of the label instructions for name
LabelsNamed(name) ==
    {i \in 1..Len(Tac) : Tac[i].kind = "TACLabel" /\ Tac[i].label = name}

\* positions of the TAC instructions of the given kinds
OfKinds(kinds) == {i \in 1..Len(Tac) : Tac[i].kind \in kinds}

\* C4 (fresh-name uniqueness): in the TAC list of one generator, every
\* temporary name t<k> handed out so far is the result of exactly one TAC
\* instruction and every label name L<k> handed out so far appears in exactly
\* one label instruction; the counters are never reset: each counts the
\* instructions that took a fresh name from it, over all functions.
C4_FreshNamesUnique ==
    /\ \A k \in 0..(irgen.temp_counter - 1) :
           Cardinality(ResultsNamed(Chars("t") \o NatToStr(k))) = 1
    /\ \A k \in 0..(irgen.label_counter - 1) :
           Cardinality(LabelsNamed(Chars("L") \o NatToStr(k))) = 1
    /\ irgen.temp_counter = Cardinality(OfKinds({"TACBinaryOp", "TACUnaryOp", "TACCall"}))
    /\ irgen.label_counter = Cardinality(OfKinds({"TACLabel"}))

\* the jumps of the TAC list
Jumps == OfKinds({"TACGoto", "TACIfGoto", "TACIfFalseGoto"})

\* position of the `function f:` instruction that opens the function
\* instruction i lies in, or 0 when i lies in no function
Enclosing(i) ==
    LET starts == {s \in 1..i : Tac[s].kind = "TACFunctionStart"}
        last == CHOOSE s \in starts : \A r \in starts : r <= s
    IN
    IF starts = {} THEN 0
    ELSE IF \E e \in last..(i - 1) : Tac[e].kind = "TACFunctionEnd" THEN 0
    ELSE last

\* C5 (label closure): every goto, if-goto and ifFalse-goto of the TAC list
\* names a label that exactly one label instruction defines, and that label
\* instruction lies between the same `function f:` / `end function f` pair
\* as the jump.
C5_LabelClosure ==
    \A i \in Jumps :
        /\ Cardinality(LabelsNamed(Tac[i].label)) = 1
        /\ Enclosing(i) # 0
        /\ \A j \in LabelsNamed(Tac[i].label) : Enclosing(j) = Enclosing(i)

\* the TAC list holds jumps in two different functions, one of them a jump
\* back to an earlier label
C5_Witness ==
    /\ \E i, j \in Jumps : Enclosing(i) # Enclosing(j)
    /\ \E i \in Jumps : \E j \in LabelsNamed(Tac[i].label) : j < i
    /\ C5_LabelClosure

\* the assembly lines emitted so far
Code == codegen.assembly_code

\* names of the top-level functions of the program that have a body, in order
RECURSIVE BodiedFrom(_)
BodiedFrom(i) ==
    IF i > Len(ast) THEN <<>>
    ELSE IF ast[i].kind = "FunctionDecl" /\ ast[i].body # None
    THEN <<ast[i].name>> \o BodiedFrom(i + 1)
    ELSE BodiedFrom(i + 1)

\* how many lines of the assembly are this line
CountLines(asm_line) == Cardinality({i \in 1..Len(Code) : Code[i] = asm_line})

\* lines i..i+2 are the label of name and the two instructions of the prologue
PrologueAt(i, name) ==
    /\ i + 2 <= Len(Code)
    /\ Code[i] = name \o Chars(":")
    /\ Code[i + 1] = Chars("    PUSH BP")
    /\ Code[i + 2] = Chars("    MOV BP, SP")

\* lines j..j+2 are the three instructions of the epilogue, and they end the
\* code of function name
EpilogueAt(j, name) ==
    /\ j + 3 <= Len(Code)
    /\ Code[j] = Chars("    MOV SP, BP")
    /\ Code[j + 1] = Chars("    POP BP")
    /\ Code[j + 2] = Chars("    RET")
    /\ Code[j + 3] = Chars("; End of ") \o name

\* C6 (function framing): for every function with a body, the assembly that
\* generate emits, and still the assembly after optimize, holds the label
\* line `f:` immediately followed by PUSH BP and MOV BP, SP, and the code of
\* the function ends with the consecutive lines MOV SP, BP, POP BP, RET;
\* the assembly holds each of the five instructions once per function, before
\* and after the peephole pass.
C6_FunctionFraming ==
    genState \in {"generated", "optimized"} =>
        LET fs == BodiedFrom(1) IN
        /\ \A k \in 1..Len(fs) :
               \E i, j \in 1..Len(Code) :
                   /\ i + 2 < j
                   /\ PrologueAt(i, fs[k])
                   /\ EpilogueAt(j, fs[k])
                   /\ \A m \in (i + 1)..j : ~StartsWith(Code[m], Chars("\n; Function: "))
        /\ \A l \in {"    PUSH BP", "    MOV BP, SP", "    MOV SP, BP", "    POP BP", "    RET"} :
               CountLines(Chars(l)) = Len(fs)

\* optimize has removed a line from the assembly of a program of two
\* functions with bodies
C6_Witness ==
    /\ genState = "optimized"
    /\ optimizations_made >= 1
    /\ Len(BodiedFrom(1)) = 2

\* the line is a MOV whose destination and source are the same operand
MovToItself(asm_line) ==
    LET parts == Split(asm_line) IN
    /\ Len(parts) = 3
    /\ parts[1] = Chars("MOV")
    /\ parts[2] = parts[3] \o Chars(",")

\* C7 (peephole soundness): after optimize has run over the lines generate
\* emitted, no line of assembly_code is a MOV r, r with the same register as
\* destination and source.
C7_NoMoveToItself ==
    genState = "optimized" => \A i \in 1..Len(Code) : ~MovToItself(Code[i])

\* optimize has run on the assembly of a program with the copy x = x and has
\* removed a line
C7_Witness ==
    /\ genState = "optimized"
    /\ \E i \in 1..Len(Tac) : Tac[i].kind = "TACAssign" /\ Tac[i].result = Tac[i].arg1
    /\ optimizations_made >= 1

--------------------------------------------------------------------------
(* Properties of the driver, checked under SpecDriver *)

\* every stage of compile_c_code has returned
AllStagesCompleted ==
    /\ lexState = "returned"
    /\ parseState = "returned"
    /\ semState = "returned"
    /\ genState = "optimized"

\* C8 (stage order): compile_c_code runs the scanner, the parser, the
\* semantic analyzer, the IR generator and the code generator (generate, then
\* optimize) in this order: a stage has started only if the stage before it
\* has returned, so no stage runs after one has raised; no exception of a
\* stage reaches the caller, and the call returns True exactly when every
\* stage has completed, False otherwise.
C8_StagesInOrder ==
    /\ parseState # "idle" => lexState = "returned"
    /\ semState # "idle" => parseState = "returned"
    /\ genState # "idle" => semState = "returned"
    /\ genState \in {"codegen", "generated", "optimized"} => irIdx = Len(ast)
    /\ genState \in {"generated", "optimized"} => cgIdx = Len(irgen.instructions)
    /\ drvState # "propagated"
    /\ drvState = "returned" => (returnValue <=> AllStagesCompleted)
    /\ drvState = "returned" /\ ~returnValue => Raised # None

\* compile_c_code has returned False after the semantic analyzer raised,
\* caught by the except Exception clause
C8_Witness ==
    /\ drvState = "returned"
    /\ ~returnValue
    /\ semState = "raised"
    /\ handler = "Exception"
    /\ genState = "idle"

--------------------------------------------------------------------------
(* Name resolution by the semantic analyzer, checked under SpecSem *)

\* the uses of a name in node, in the order of the program text: the name of
\* an Identifier, the target of an Assignment, the name of a FunctionCall
RECURSIVE NameUses(_)
RECURSIVE NameUsesAll(_, _)
NameUsesAll(nodes, i) ==
    IF i > Len(nodes) THEN <<>> ELSE NameUses(nodes[i]) \o NameUsesAll(nodes, i + 1)

NameUses(node) ==
    IF node = None THEN <<>>
    ELSE IF node.kind = "Identifier" THEN << <<"Identifier", node.name>> >>
    ELSE IF node.kind = "BinaryOp" THEN NameUses(node.left) \o NameUses(node.right)
    ELSE IF node.kind = "UnaryOp" THEN NameUses(node.operand)
    ELSE IF node.kind = "Assignment"
    THEN << <<"Assignment", node.target>> >> \o NameUses(node.value)
    ELSE IF node.kind = "FunctionCall"
    THEN << <<"FunctionCall", node.name>> >> \o NameUsesAll(node.arguments, 1)
    ELSE IF node.kind = "VarDecl" THEN NameUses(node.initializer)
    ELSE IF node.kind = "FunctionDecl"
    THEN (IF node.body # None THEN NameUsesAll(node.body.statements, 1) ELSE <<>>)
    ELSE IF node.kind = "CompoundStmt" THEN NameUsesAll(node.statements, 1)
    ELSE IF node.kind \in {"ExpressionStmt", "ReturnStmt"} THEN NameUses(node.expression)
    ELSE IF node.kind = "IfStmt"
    THEN NameUses(node.condition) \o NameUses(node.then_stmt) \o NameUses(node.else_stmt)
    ELSE IF node.kind = "WhileStmt" THEN NameUses(node.condition) \o NameUses(node.body)
    ELSE IF node.kind = "ForStmt"
    THEN NameUses(node.init) \o NameUses(node.condition) \o NameUses(node.update)
         \o NameUses(node.body)
    ELSE <<>>

\* C11 (names resolve): if analyze returns without raising, every Identifier,
\* every Assignment target and every FunctionCall name of the Program, those
\* inside a declaration in statement position included, was looked up during
\* the walk and found, a FunctionCall name as a function.
C11_EveryNameResolved ==
    semState = "returned" => analyzer.resolved = NameUsesAll(ast, 1)

\* analyze has returned on a program whose function body declares a function
\* in statement position, and the identifier that function returns was
\* never looked up
C11_Witness ==
    /\ semState = "returned"
    /\ Len(ast) = 1
    /\ ast[1].body # None
    /\ \E i \in 1..Len(ast[1].body.statements) :
           ast[1].body.statements[i].kind = "FunctionDecl"
    /\ analyzer.resolved = <<>>
    /\ NameUsesAll(ast, 1) = << <<"Identifier", N_y>> >>

--------------------------------------------------------------------------
(* The SymbolTable's methods, checked under SpecTable *)

\* C12 (declaration rule): declare fails, with a SemanticError that says
\* "already declared in this scope", exactly when the name is a key of the
\* innermost frame; a failed declare changes no frame; a name held by outer
\* frames only is declared, and the symbol is added to the innermost frame
\* while every other frame and every other entry stay as they were.
C12_DeclareRule ==
    tableCall.op = "declare" =>
        LET depth == Len(tableCall.before) IN
        /\ (tableCall.result # None) <=> (tableCall.name \in DOMAIN tableCall.before[depth])
        /\ tableCall.result # None =>
              /\ tableCall.result.kind = "SemanticError"
              /\ Contains(tableCall.result.message, Chars("already declared in this scope"))
              /\ Contains(tableCall.result.message, tableCall.name)
              /\ analyzer.scopes = tableCall.before
        /\ tableCall.result = None =>
              /\ Len(analyzer.scopes) = depth
              /\ \A i \in 1..(depth - 1) : analyzer.scopes[i] = tableCall.before[i]
              /\ DOMAIN analyzer.scopes[depth]
                     = DOMAIN tableCall.before[depth] \cup {tableCall.name}
              /\ \A n \in DOMAIN tableCall.before[depth] :
                     analyzer.scopes[depth][n] = tableCall.before[depth][n]
              /\ analyzer.scopes[depth][tableCall.name].name = tableCall.name

\* a name held by an outer frame only has been declared again: the call
\* succeeded and the innermost frame now holds it too
C12_Witness ==
    /\ tableCall.op = "declare"
    /\ tableCall.result = None
    /\ Len(tableCall.before) > 1
    /\ tableCall.name \in DOMAIN tableCall.before[1]
    /\ tableCall.name \in DOMAIN analyzer.scopes[Len(analyzer.scopes)]

--------------------------------------------------------------------------
(* Termination of Lexer.tokenize, checked under SpecLexFair *)

\* the position the next iteration of tokenize looks at, after its
\* skip_whitespace
AfterSpace == skip_whitespace(source, Cursor(position, line, column))

\* the next iteration of tokenize is at the opening of a block comment
AtBlockComment ==
    /\ lexState = "running"
    /\ current_char(source, AfterSpace) = "/"
    /\ peek_char(source, AfterSpace) = "*"

\* the block comment opening at AfterSpace is closed somewhere
BlockCommentClosed ==
    \E i \in (AfterSpace.position + 3)..(Len(source) - 1) :
        source[i] = "*" /\ source[i + 1] = "/"

LexicalErrorMessages ==
    {"Unexpected character", "Unterminated string literal", "Invalid number format"}

\* the lexical error raised is a SyntaxError with the line and column of the
\* lexer and one of the three causes
IsLexicalError ==
    /\ lexError.kind = "SyntaxError"
    /\ lexError.line = line
    /\ lexError.column = column
    /\ lexError.line >= 1
    /\ lexError.column >= 1
    /\ lexError.message \in LexicalErrorMessages
    /\ (lexError.message = "Unexpected character" =>
           /\ position < Len(source)
           /\ source[position + 1] \in {"@", "\\", "."})
    /\ (lexError.message = "Unterminated string literal" =>
           /\ position = Len(source)
           /\ \E i \in 1..Len(source) : source[i] = "\"")
    /\ (lexError.message = "Invalid number format" =>
           /\ position < Len(source)
           /\ source[position + 1] = "."
           /\ \E i \in 1..position : source[i] = ".")

\* C13 (tokenize terminates): on every source tokenize ends, by returning
\* its tokens or by raising; an iteration of its main loop consumes at least
\* one character or raises; what it raises is a SyntaxError with line and
\* column for an unexpected character, an unterminated string literal or a
\* second '.' in a number; a block comment that is never closed is not an
\* error, the iteration that meets it runs to the end of the input.
C13_TokenizeTerminates ==
    /\ <>(lexState \in {"returned", "raised"})
    /\ [][/\ (position < Len(source) =>
               (position' > position \/ lexState' = "raised"))
           /\ position' >= position
           /\ AtBlockComment =>
               /\ lexState' = "running"
               /\ (~BlockCommentClosed => position' = Len(source))]_vars
    /\ [](lexState = "raised" => IsLexicalError)
    /\ [](lexState = "returned" => lexError = None /\ position = Len(source))

\* tokenize has returned on a source that opens a block comment and never
\* closes it: the only token is EOF
C13_Witness ==
    /\ lexState = "returned"
    /\ Len(source) = MaxSrcLen
    /\ source[1] = "/"
    /\ source[2] = "*"
    /\ source[3] = "a"
    /\ Len(tokens) = 1
    /\ tokens[1].type = "EOF"

--------------------------------------------------------------------------
(* Termination of Parser.parse, checked under SpecParseFair *)

\* C14 (parse terminates): on the tokens of a source, which end with EOF,
\* parse ends; it returns the Program with every token before EOF consumed,
\* or it raises a SyntaxError with the line and column of the current token,
\* at the first token that does not match (EOF when the source is a program
\* cut short), and nothing is consumed after that; every iteration over the
\* top-level declarations consumes at least one token.
C14_ParseTerminates ==
    /\ <>(parseState \in {"returned", "raised"})
    /\ [][/\ current' >= current
           /\ (parseState' = "running" => current' > current)
           /\ (parseState' = "raised" => ast' = ast)]_vars
    /\ [](parseState = "returned" =>
             /\ parseError = None
             /\ current = Len(tokens) - 1
             /\ source \notin MismatchSources
             /\ (source \in PrefixSources => source \in CompleteSources))
    /\ [](parseState = "raised" =>
             /\ parseError.kind = "SyntaxError"
             /\ parseError.line = tokens[current + 1].line
             /\ parseError.column = tokens[current + 1].column
             /\ source \notin CompleteSources
             /\ (source \in PrefixSources => tokens[current + 1].type = "EOF")
             /\ (source \in MismatchSources =>
                    <<source, parseError.column>> \in MismatchTable))

\* parse has raised at EOF inside the block of a function that follows two
\* declarations it had parsed
C14_Witness ==
    /\ parseState = "raised"
    /\ source \in PrefixSources
    /\ Len(ast) = 2
    /\ tokens[current + 1].type = "EOF"
    /\ tokens[current].type = "LBRACE"

\* C15 (scope labels): the scope label of every Symbol is global,
\* function:<name>, for or block, and it is the label of the frame the
\* symbol was declared in: global for a declaration at top level, also after
\* an earlier function was analyzed, and function:<name> for a local of the
\* function, also after a nested block or for was left.
C15_ScopeLabels ==
    \A i \in 1..Len(analyzer.scopes) :
        \A name \in DOMAIN analyzer.scopes[i] :
            /\ analyzer.scopes[i][name].scope \in ScopeNames \cup {Chars("global")}
            /\ analyzer.scopes[i][name].scope = opened[i].label

\* a name has been declared in the global frame after a scope was entered
\* and left, and its symbol is labelled outer
C15_Witness ==
    /\ tableCall.op = "declare"
    /\ tableCall.result = None
    /\ Len(analyzer.scopes) = 1
    /\ analyzer.exited > 0
    /\ analyzer.scopes[1][tableCall.name].scope = Chars("outer")

\* the frames of a scope stack that hold name
Holders(scopes, name) == {i \in 1..Len(scopes) : name \in DOMAIN scopes[i]}

\* the symbol of the innermost frame that holds name, or None
InnermostSymbol(scopes, name) ==
    IF Holders(scopes, name) = {} THEN None
    ELSE scopes[CHOOSE i \in Holders(scopes, name) :
                    \A j \in Holders(scopes, name) : j <= i][name]

\* C16 (lookup and frame isolation): lookup returns the symbol of the
\* innermost frame that holds the name, or None when no frame holds it; what
\* is declared in an inner frame adds, removes and changes nothing in the
\* frames below it; once the inner frame is popped, the stack is what it was
\* before the push and lookup returns for every name what it returned then.
C16_LookupAndIsolation ==
    /\ \A name \in TableNames :
          lookup(analyzer, name) = InnermostSymbol(analyzer.scopes, name)
    /\ tableCall.op = "lookup" =>
          tableCall.result = InnermostSymbol(tableCall.before, tableCall.name)
    /\ \A i \in 2..Len(analyzer.scopes) :
          opened[i].below = SubSeq(analyzer.scopes, 1, i - 1)
    /\ (tableCall.op = "exit_scope" /\ tableCall.popped # None) =>
          /\ analyzer.scopes = tableCall.popped.below
          /\ \A name \in TableNames :
                lookup(analyzer, name)
                    = InnermostSymbol(tableCall.popped.below, name)

\* a frame in which a name of the frame below was declared again with
\* another type has been popped: lookup finds the outer symbol again
C16_Witness ==
    /\ tableCall.op = "exit_scope"
    /\ tableCall.popped # None
    /\ Len(analyzer.scopes) = 1
    /\ N_x \in DOMAIN analyzer.scopes[1]
    /\ N_x \in DOMAIN tableCall.before[2]
    /\ tableCall.before[2][N_x].type # analyzer.scopes[1][N_x].type
    /\ lookup(analyzer, N_x) = analyzer.scopes[1][N_x]

--------------------------------------------------------------------------
(* Type compatibility, checked under SpecSem *)

TypeTags ==
    {Chars("int"), Chars("float"), Chars("char"), Chars("void"), Chars("char*"),
     Chars("function:void"), Chars("unknown")}

\* the pairs <<target, source>> of type tags that are compatible
CompatiblePairs ==
    {<<t, t>> : t \in TypeTags}
    \cup {<<Chars("int"), Chars("float")>>, <<Chars("float"), Chars("int")>>}
    \cup {<<t, Chars("unknown")>> : t \in TypeTags}

\* an error recorded by the analyzer holds both texts
Recorded(text, more) ==
    \E i \in 1..Len(analyzer.errors) :
        Contains(analyzer.errors[i], text) /\ Contains(analyzer.errors[i], more)

\* C17 (type compatibility): is_compatible_type(target, source) is true
\* exactly when target equals source, or both are int or float, or source
\* is unknown; for every other pair it is false, and the initializer, the
\* assignment or the return that uses it records a type-mismatch error
\* (and records none for a compatible pair).
C17_TypeCompatibility ==
    /\ \A t \in TypeTags, s \in TypeTags :
          is_compatible_type(t, s) <=> <<t, s>> \in CompatiblePairs
    /\ semState \in {"returned", "raised"} =>
          \A t \in TargetTypes, e \in TypedSources :
              /\ ast = InitProgram(t, e[1]) =>
                    (Recorded(Chars("Type mismatch in initialization of 'x'"),
                              Chars("cannot assign ") \o e[2] \o Chars(" to ") \o t)
                        <=> <<t, e[2]>> \notin CompatiblePairs)
              /\ ast = AssignProgram(t, e[1]) =>
                    (Recorded(Chars("Type mismatch in assignment to 'x'"),
                              Chars("cannot assign ") \o e[2] \o Chars(" to ") \o t)
                        <=> <<t, e[2]>> \notin CompatiblePairs)
              /\ ast = ReturnProgram(t, e[1]) =>
                    (Recorded(Chars("Return type mismatch"),
                              Chars("expected ") \o t \o Chars(", got ") \o e[2])
                        <=> <<t, e[2]>> \notin CompatiblePairs)

\* analyze has raised on `char c; void p(); char x; void f() { x = 1; }`
\* with the mismatch of char from int recorded
C17_Witness ==
    /\ semState = "raised"
    /\ ast = AssignProgram(Chars("char"), Lit1)
    /\ Recorded(Chars("Type mismatch in assignment to 'x'"),
                Chars("cannot assign int to char"))

--------------------------------------------------------------------------
(* Assignment targets, checked under SpecParse *)

\* C18 (assignment target): at an `=` that follows an expression at the
\* assignment level the parser builds an Assignment node only if the
\* expression parsed to its left is an Identifier node; for a literal, a
\* binary or unary operation or a function call it raises "Invalid
\* assignment target" at the `=` token and builds no AST.
C18_AssignmentTarget ==
    /\ (parseState = "raised" /\ parseError.message = "Invalid assignment target") =>
          /\ tokens[current + 1].type = "ASSIGN"
          /\ parseError.line = tokens[current + 1].line
          /\ parseError.column = tokens[current + 1].column
          /\ ast = <<>>
    /\ parseState \in {"returned", "raised"} =>
          \A entry \in AssignTable :
              source = AssignSource(entry[1]) =>
                  IF entry[2] = NoneStr
                  THEN /\ parseState = "raised"
                       /\ parseError.message = "Invalid assignment target"
                       /\ parseError.column = Len(Chars("int f() { ")) + Len(entry[1]) + 2
                       /\ ast = <<>>
                  ELSE /\ parseState = "returned"
                       /\ Len(ast) = 1
                       /\ Len(ast[1].body.statements) = 1
                       /\ ast[1].body.statements[1].expression.kind = "Assignment"
                       /\ ast[1].body.statements[1].expression.target = entry[2]

\* the parser has raised at the `=` of `f(a) = 1`
C18_Witness ==
    /\ parseState = "raised"
    /\ source = AssignSource(Chars("f(a)"))
    /\ parseError.message = "Invalid assignment target"
    /\ tokens[current + 1].type = "ASSIGN"
    /\ tokens[current].type = "RPAREN"

--------------------------------------------------------------------------
(* The expression grammar, checked under SpecParse *)

\* a token sequence that the grammar does not derive
Bad == [kind |-> "Bad"]

\* the operators of the binary levels of the grammar, by token type
RefOperators ==
    [level \in 2..7 |->
        IF level = 2 THEN {"LOGICAL_OR"}
        ELSE IF level = 3 THEN {"LOGICAL_AND"}
        ELSE IF level = 4 THEN {"EQUAL", "NOT_EQUAL"}
        ELSE IF level = 5 THEN {"LESS_THAN", "GREATER_THAN", "LESS_EQUAL", "GREATER_EQUAL"}
        ELSE IF level = 6 THEN {"PLUS", "MINUS"}
        ELSE {"MULTIPLY", "DIVIDE", "MODULO"}]

\* the parentheses open in front of token k that were opened at lo or later
TokDepth(toks, lo, k) ==
    Cardinality({i \in lo..(k - 1) : toks[i].type = "LPAREN"})
    - Cardinality({i \in lo..(k - 1) : toks[i].type = "RPAREN"})

\* the tokens of the given types between lo and hi that stand outside
\* parentheses
Outside(toks, lo, hi, types) ==
    {k \in (lo + 1)..(hi - 1) : toks[k].type \in types /\ TokDepth(toks, lo, k) = 0}

\* the token in front of k ends an operand, so an operator at k is binary
AfterOperand(toks, k) ==
    toks[k - 1].type \in {"IDENTIFIER", "INTEGER_LITERAL", "FLOAT_LITERAL",
                          "STRING_LITERAL", "RPAREN"}

\* the binary operators of a level in lo..hi outside parentheses
BinaryAt(toks, lo, hi, level) ==
    {k \in Outside(toks, lo, hi, RefOperators[level]) : AfterOperand(toks, k)}

\* the parenthesis at lo is closed by the one at hi
Encloses(toks, lo, hi) ==
    /\ lo < hi
    /\ toks[lo].type = "LPAREN"
    /\ toks[hi].type = "RPAREN"
    /\ \A k \in (lo + 1)..hi : TokDepth(toks, lo, k) > 0

Least(set) == CHOOSE k \in set : \A other \in set : k <= other

Greatest(set) == CHOOSE k \in set : \A other \in set : other <= k

\* the tree the grammar gives to the tokens lo..hi read as an expression of
\* the given level or a higher one: an assignment is split at its first `=`
\* (right to left grouping), a binary level at its last operator (left to
\* right grouping), a prefix operator applies to all that follows it at
\* its level, parentheses enclose an expression of level 1
RECURSIVE RefTree(_, _, _, _)
RECURSIVE RefArguments(_, _, _)
RefArguments(toks, lo, hi) ==
    IF lo > hi THEN <<>>
    ELSE IF Outside(toks, lo, hi, {"COMMA"}) = {}
    THEN <<RefTree(toks, lo, hi, 1)>>
    ELSE <<RefTree(toks, lo, Least(Outside(toks, lo, hi, {"COMMA"})) - 1, 1)>>
         \o RefArguments(toks, Least(Outside(toks, lo, hi, {"COMMA"})) + 1, hi)

RefAssignment(toks, lo, hi, k) ==
    IF RefTree(toks, lo, k - 1, 2).kind = "Identifier"
    THEN Assignment(RefTree(toks, lo, k - 1, 2).name, RefTree(toks, k + 1, hi, 1))
    ELSE Bad

RefBinary(toks, lo, hi, level, k) ==
    BinaryOp(OperatorOf(toks[k].value),
             RefTree(toks, lo, k - 1, level), RefTree(toks, k + 1, hi, level + 1))

RefTree(toks, lo, hi, level) ==
    IF lo > hi THEN Bad
    ELSE IF level = 1
    THEN (IF Outside(toks, lo, hi, {"ASSIGN"}) = {}
          THEN RefTree(toks, lo, hi, 2)
          ELSE RefAssignment(toks, lo, hi, Least(Outside(toks, lo, hi, {"ASSIGN"}))))
    ELSE IF level \in 2..7
    THEN (IF BinaryAt(toks, lo, hi, level) = {}
          THEN RefTree(toks, lo, hi, level + 1)
          ELSE RefBinary(toks, lo, hi, level, Greatest(BinaryAt(toks, lo, hi, level))))
    ELSE IF level = 8
    THEN (IF toks[lo].type \in {"MINUS", "LOGICAL_NOT"}
          THEN UnaryOp(OperatorOf(toks[lo].value), RefTree(toks, lo + 1, hi, 8))
          ELSE RefTree(toks, lo, hi, 9))
    ELSE IF level = 9
    THEN (IF toks[lo].type = "IDENTIFIER" /\ Encloses(toks, lo + 1, hi)
          THEN FunctionCall(toks[lo].value, RefArguments(toks, lo + 2, hi - 1))
          ELSE RefTree(toks, lo, hi, 10))
    ELSE IF lo = hi /\ toks[lo].type = "IDENTIFIER" THEN Identifier(toks[lo].value)
    ELSE IF lo = hi /\ toks[lo].type = "INTEGER_LITERAL" THEN IntLiteral(toks[lo].value)
    ELSE IF Encloses(toks, lo, hi) THEN RefTree(toks, lo + 1, hi - 1, 1)
    ELSE Bad

\* the tokens of the expression in `int v = <expression>;` are those after
\* `int`, `v`, `=` and before `;` and EOF
RefInitializer == RefTree(tokens, 4, Len(tokens) - 2, 1)

\* C19 (expression grammar): the tree parse_expression builds for an
\* expression is the tree of the grammar with the ten levels in their order:
\* an operator of a higher level binds tighter, binary operators of a level
\* group left to right, assignment groups right to left, prefix - and !
\* group right to left, and parentheses override the levels.
C19_ExpressionGrammar ==
    (parseState \in {"returned", "raised"} /\ source \in ExprSources) =>
        /\ parseState = "returned"
        /\ ast = <<VarDecl(Chars("int"), N_v, RefInitializer)>>
        /\ source \in {ExprSource(Unparse(ast[1].initializer, 1, full)) : full \in BOOLEAN}

\* parse has returned on `int v = a - 1 - (a - 1);` with the left operand
\* grouped first and the parenthesized operand kept whole
C19_Witness ==
    /\ parseState = "returned"
    /\ source = ExprSource(Chars("a - 1 - (a - 1)"))
    /\ ast[1].initializer
          = BinaryOp("-", BinaryOp("-", Identifier(N_a), Lit1),
                     BinaryOp("-", Identifier(N_a), Lit1))

--------------------------------------------------------------------------
(* The lowering of while, checked under SpecGen *)

\* the first declaration is a function whose body ends with a while
\* statement, and the generator has lowered it
WhileLowered ==
    /\ irIdx >= 1
    /\ ast[1].kind = "FunctionDecl"
    /\ ast[1].body # None
    /\ Len(ast[1].body.statements) >= 1
    /\ ast[1].body.statements[Len(ast[1].body.statements)].kind = "WhileStmt"

TheWhile == ast[1].body.statements[Len(ast[1].body.statements)]

\* the generator where the while statement begins: after `function f:` and
\* the statements in front of the while
BeforeWhile ==
    IrVisitStatements(emit(IrFresh, TACFunctionStart(ast[1].name)),
                      SubSeq(ast[1].body.statements, 1, Len(ast[1].body.statements) - 1), 1)

Lstart == Chars("L") \o NatToStr(BeforeWhile.label_counter)

Lend == Chars("L") \o NatToStr(BeforeWhile.label_counter + 1)

\* the condition lowered once the two labels are taken
ConditionLowered ==
    ir_visit_expression([BeforeWhile EXCEPT !.label_counter = @ + 2], TheWhile.condition)

\* the body lowered after the condition
BodyLowered == ir_visit_statement(ConditionLowered.g, TheWhile.body)

\* the instructions a generator has emitted since an earlier one
Since(earlier, later) ==
    SubSeq(later.instructions, Len(earlier.instructions) + 1, Len(later.instructions))

WhileTac ==
    BeforeWhile.instructions
    \o <<TACLabel(Lstart)>>
    \o Since(BeforeWhile, ConditionLowered.g)
    \o <<TACIfFalseGoto(ConditionLowered.name, Lend)>>
    \o Since(ConditionLowered.g, BodyLowered)
    \o <<TACGoto(Lstart), TACLabel(Lend), TACFunctionEnd(ast[1].name)>>

\* the lines of the assembly that are the given text
LinesOf(text) == {i \in 1..Len(Code) : Code[i] = text}

\* C20 (while lowering): for a while statement the generator emits, in this
\* order and nothing else, the label Lstart, the TAC of the condition,
\* `ifFalse t goto Lend`, the TAC of the body, `goto Lstart` and the label
\* Lend, where Lstart and Lend are two distinct labels that no other label
\* instruction carries; the assembly of the loop has exactly one
\* `JMP Lstart`, after the body, and exactly one `JE Lend`, in front of it.
C20_WhileLowering ==
    WhileLowered =>
        /\ Len(Tac) >= Len(WhileTac)
        /\ SubSeq(Tac, 1, Len(WhileTac)) = WhileTac
        /\ Lstart # Lend
        /\ \A label \in {Lstart, Lend} :
              Cardinality({i \in 1..Len(Tac) :
                              Tac[i].kind = "TACLabel" /\ Tac[i].label = label}) = 1
        /\ genState \in {"generated", "optimized"} =>
              /\ Cardinality(LinesOf(Chars("    JMP ") \o Lstart)) = 1
              /\ Cardinality(LinesOf(Chars("    JE ") \o Lend)) = 1
              /\ \A start \in LinesOf(Lstart \o Chars(":")),
                    test \in LinesOf(Chars("    JE ") \o Lend),
                    back \in LinesOf(Chars("    JMP ") \o Lstart) :
                     /\ start < test
                     /\ test < back
                     /\ Code[back + 1] = Lend \o Chars(":")

\* the assembly has been generated for a function whose body is a while
\* around a while: the outer loop took L0 and L1 and its body holds the
\* labels L2 and L3 of the inner loop
C20_Witness ==
    /\ WhileLowered
    /\ genState = "optimized"
    /\ TheWhile.body.kind = "WhileStmt"
    /\ Lstart = Chars("L0")
    /\ Lend = Chars("L1")
    /\ LinesOf(Chars("    JMP L2")) # {}
    /\ LinesOf(Chars("    JE L3")) # {}

--------------------------------------------------------------------------
(* The lowering of for, checked under SpecGen *)

\* the last statement of the body of the first declaration, a function
LastStatement == ast[1].body.statements[Len(ast[1].body.statements)]

\* the first declaration is a function whose body ends with a for
\* statement, and the generator has lowered it
ForLowered ==
    /\ irIdx >= 1
    /\ ast[1].kind = "FunctionDecl"
    /\ ast[1].body # None
    /\ Len(ast[1].body.statements) >= 1
    /\ LastStatement.kind = "ForStmt"

\* the generator where the for statement begins
BeforeFor ==
    IrVisitStatements(emit(IrFresh, TACFunctionStart(ast[1].name)),
                      SubSeq(ast[1].body.statements, 1, Len(ast[1].body.statements) - 1), 1)

\* the generator after the init of the for statement, if it has one
InitLowered ==
    IF LastStatement.init = None THEN BeforeFor
    ELSE IF LastStatement.init.kind = "VarDecl"
    THEN ir_visit_var_decl(BeforeFor, LastStatement.init)
    ELSE ir_visit_statement(BeforeFor, LastStatement.init)

ForStart == Chars("L") \o NatToStr(InitLowered.label_counter)

ForEnd == Chars("L") \o NatToStr(InitLowered.label_counter + 1)

ForUpdate == Chars("L") \o NatToStr(InitLowered.label_counter + 2)

\* the generator once the three labels are taken
ForLabelled == [InitLowered EXCEPT !.label_counter = @ + 3]

\* the condition of the for statement lowered
ForCondition == ir_visit_expression(ForLabelled, LastStatement.condition)

\* the generator in front of the body
ForTested == IF LastStatement.condition = None THEN ForLabelled ELSE ForCondition.g

ForBody == ir_visit_statement(ForTested, LastStatement.body)

\* the generator after the update of the for statement, if it has one
ForUpdated ==
    IF LastStatement.update = None THEN ForBody
    ELSE ir_visit_expression(ForBody, LastStatement.update).g

ForTac ==
    InitLowered.instructions
    \o <<TACLabel(ForStart)>>
    \o (IF LastStatement.condition = None THEN <<>>
        ELSE Since(ForLabelled, ForCondition.g)
             \o <<TACIfFalseGoto(ForCondition.name, ForEnd)>>)
    \o Since(ForTested, ForBody)
    \o <<TACLabel(ForUpdate)>>
    \o Since(ForBody, ForUpdated)
    \o <<TACGoto(ForStart), TACLabel(ForEnd), TACFunctionEnd(ast[1].name)>>

\* C21 (for lowering): for a for statement the generator emits, in this
\* order, the TAC of init if there is one, the label Lstart, the TAC of the
\* condition and `ifFalse t goto Lend` only if there is a condition, the TAC
\* of the body, the label Lupdate, the TAC of the update if there is one,
\* `goto Lstart` and the label Lend; the three labels are distinct, each is
\* carried by exactly one label instruction whether or not init, condition
\* and update are there, and no jump names Lupdate.
C21_ForLowering ==
    ForLowered =>
        /\ Len(Tac) >= Len(ForTac)
        /\ SubSeq(Tac, 1, Len(ForTac)) = ForTac
        /\ Cardinality({ForStart, ForEnd, ForUpdate}) = 3
        /\ \A label \in {ForStart, ForEnd, ForUpdate} : Cardinality(LabelsNamed(label)) = 1
        /\ \A i \in Jumps : Tac[i].label # ForUpdate

\* the generator has lowered a for statement with init, condition and
\* update around a for statement that has none of the three
C21_Witness ==
    /\ ForLowered
    /\ LastStatement.init # None
    /\ LastStatement.condition # None
    /\ LastStatement.update # None
    /\ LastStatement.body.kind = "ForStmt"
    /\ LastStatement.body.init = None
    /\ LastStatement.body.condition = None
    /\ LastStatement.body.update = None
    /\ Len(Tac) = Len(ForTac)

--------------------------------------------------------------------------
(* The lowering of a function call, checked under SpecGen *)

\* the first declaration is a function whose body ends with a call as an
\* expression statement, and the generator has lowered it
CallLowered ==
    /\ irIdx >= 1
    /\ ast[1].kind = "FunctionDecl"
    /\ ast[1].body # None
    /\ Len(ast[1].body.statements) >= 1
    /\ LastStatement.kind = "ExpressionStmt"
    /\ LastStatement.expression.kind = "FunctionCall"

TheCall == LastStatement.expression

\* the generator after `param` for the value of a lowered argument
Passed(lowered) == emit(lowered.g, TACParam(lowered.name))

\* the generator after the arguments from the last one down to the i-th
\* are lowered, each followed by its param
RECURSIVE ArgumentsLowered(_)
ArgumentsLowered(i) ==
    IF i > Len(TheCall.arguments) THEN BeforeFor
    ELSE Passed(ir_visit_expression(ArgumentsLowered(i + 1), TheCall.arguments[i]))

\* the temporary new_temp returns after the arguments
CallResult == Chars("t") \o NatToStr(ArgumentsLowered(1).temp_counter)

CallTac ==
    ArgumentsLowered(1).instructions
    \o <<TACCall(CallResult, TheCall.name, Len(TheCall.arguments)),
         TACFunctionEnd(ast[1].name)>>

\* the instructions of the TAC list that take their result from new_temp
TakesTemp == OfKinds({"TACBinaryOp", "TACUnaryOp", "TACCall"})

\* C22 (call lowering): for a call f(a1..an) the generator lowers the
\* arguments from an down to a1, emits `param` with the value of ai right
\* after lowering ai, and then emits `t = call f, n`, where n is the number
\* of arguments and t is the temporary new_temp returns then, which no
\* other instruction that takes a temporary has as its result; this holds
\* for n = 0 too, where there is no param.
C22_CallLowering ==
    CallLowered =>
        /\ Len(Tac) >= Len(CallTac)
        /\ SubSeq(Tac, 1, Len(CallTac)) = CallTac
        /\ Tac[Len(CallTac) - 1].n_args = Len(TheCall.arguments)
        /\ \A i \in TakesTemp : Tac[i].result = CallResult => i = Len(CallTac) - 1
        /\ Len(TheCall.arguments) = 0 =>
              Len(CallTac) = Len(BeforeFor.instructions) + 2

\* the generator has lowered a call of three arguments, two of them calls,
\* and another one of no argument
C22_Witness ==
    /\ CallLowered
    /\ Len(TheCall.arguments) = 3
    /\ TheCall.arguments[1].kind = "FunctionCall"
    /\ TheCall.arguments[2].kind = "FunctionCall"
    /\ Len(TheCall.arguments[1].arguments) = 0
    /\ Tac[Len(CallTac) - 2] = TACParam(Chars("t1"))
    /\ Tac[Len(CallTac) - 1].result = Chars("t2")

--------------------------------------------------------------------------
(* Literals and registers in the code generator, checked under SpecGen *)

\* the names the register map holds
Mapped == DOMAIN codegen.var_to_register

\* C23 (literals stay inline): a TAC operand that is a literal, a number or
\* a double-quoted string, is never passed to the register allocator, so
\* the register map never has a literal as a key, whatever instruction the
\* operand belongs to: a unary operation on a literal and a conditional
\* jump on a literal included.
C23_LiteralsInline == \A name \in Mapped : ~is_constant(name)

\* the code generator has translated a unary operation whose operand is a
\* literal and a conditional jump whose condition is a literal
C23_Witness ==
    /\ genState = "generated"
    /\ \E i \in 1..Len(Tac) : Tac[i].kind = "TACUnaryOp" /\ is_constant(Tac[i].arg)
    /\ \E i \in 1..Len(Tac) : Tac[i].kind = "TACIfFalseGoto" /\ is_constant(Tac[i].condition)

\* the operand, unless is_constant tells the generator to emit it inline
UnlessConstant(operand) == IF is_constant(operand) THEN <<>> ELSE <<operand>>

\* the names generate_instruction passes to allocate_register for one TAC
\* instruction, in the order of the calls
Passes(instruction) ==
    IF instruction.kind = "TACAssign"
    THEN <<instruction.result>> \o UnlessConstant(instruction.arg1)
    ELSE IF instruction.kind = "TACBinaryOp"
    THEN <<instruction.result>> \o UnlessConstant(instruction.arg1)
                                \o UnlessConstant(instruction.arg2)
    ELSE IF instruction.kind = "TACUnaryOp" THEN <<instruction.result, instruction.arg>>
    ELSE IF instruction.kind \in {"TACIfGoto", "TACIfFalseGoto"} THEN <<instruction.condition>>
    ELSE IF instruction.kind = "TACParam" THEN UnlessConstant(instruction.arg)
    ELSE IF instruction.kind = "TACCall" THEN <<instruction.result>>
    ELSE IF instruction.kind = "TACReturn" /\ instruction.value # NoneStr
    THEN UnlessConstant(instruction.value)
    ELSE <<>>

\* the names passed to allocate_register over the first i instructions
RECURSIVE PassedUpTo(_)
PassedUpTo(i) ==
    IF i = 0 THEN <<>>
    ELSE PassedUpTo(i - 1) \o Passes(codegen.tac_instructions[i])

\* the register map is what the names passed so far make it
MapFollows(passed) ==
    /\ Mapped = {passed[i] : i \in 1..Len(passed)}
    /\ \A i \in 1..Len(passed) :
          (\A j \in 1..(i - 1) : passed[j] # passed[i]) =>
              codegen.var_to_register[passed[i]] =
                  Chars("R") \o NatToStr(Cardinality({passed[j] : j \in 1..i}) - 1)

\* every name of the map keeps its register in the next state
MapKept ==
    \A name \in Mapped :
        /\ name \in DOMAIN codegen'.var_to_register
        /\ codegen'.var_to_register[name] = codegen.var_to_register[name]

\* C24 (register map): at every point of code generation the k-th distinct
\* name passed to allocate_register has the register R<k-1>, two different
\* names never have the same register, register_counter is the number of
\* entries of the map, and a name that has a register keeps it in every
\* later state.
C24_RegisterMap ==
    /\ [](/\ MapFollows(PassedUpTo(cgIdx))
          /\ \A a, b \in Mapped :
                a # b => codegen.var_to_register[a] # codegen.var_to_register[b]
          /\ codegen.register_counter = Cardinality(Mapped))
    /\ [][MapKept]_vars

\* code generation has passed one name to allocate_register again after two
\* other names on the way to a map of four registers
C24_Witness ==
    /\ genState = "generated"
    /\ codegen.register_counter = 4
    /\ \E i, j \in 1..Len(PassedUpTo(cgIdx)) :
          /\ i + 2 < j
          /\ PassedUpTo(cgIdx)[i] = PassedUpTo(cgIdx)[j]
          /\ Cardinality({PassedUpTo(cgIdx)[k] : k \in i..j}) >= 3

--------------------------------------------------------------------------
(* The assembly of a call, checked under SpecGen *)

\* the instruction the loop of generate has just translated is a call
CallTranslated ==
    /\ genState = "codegen"
    /\ cgIdx >= 1
    /\ codegen.tac_instructions[cgIdx].kind = "TACCall"

TranslatedCall == codegen.tac_instructions[cgIdx]

\* CALL f, then ADD SP, #(4*n), then MOV r, RAX for the result
CallLines ==
    << Chars("    CALL ") \o TranslatedCall.function,
       Chars("    ADD SP, #") \o NatToStr(4 * TranslatedCall.n_args) >>
    \o (IF TranslatedCall.result = NoneStr THEN <<>>
        ELSE << Chars("    MOV ") \o codegen.var_to_register[TranslatedCall.result]
                \o Chars(", RAX") >>)

\* C25 (call sequence): for a TAC call `[r =] call f, n` the code generator
\* emits `CALL f`, then `ADD SP, #(4*n)`, then `MOV r, RAX` if the call has
\* a result, in this order with nothing in between, for every n >= 0.
C25_CallSequence ==
    CallTranslated =>
        /\ Len(Code) >= Len(CallLines)
        /\ SubSeq(Code, Len(Code) - Len(CallLines) + 1, Len(Code)) = CallLines

\* the code generator has translated a call with no argument
C25_Witness ==
    /\ CallTranslated
    /\ TranslatedCall.n_args = 0

\* CALL f, then ADD SP, #(4*n) when the call passes an argument, then
\* MOV r, RAX for the result
CallLinesCleaningUp ==
    << Chars("    CALL ") \o TranslatedCall.function >>
    \o (IF TranslatedCall.n_args > 0
        THEN << Chars("    ADD SP, #") \o NatToStr(4 * TranslatedCall.n_args) >>
        ELSE <<>>)
    \o (IF TranslatedCall.result = NoneStr THEN <<>>
        ELSE << Chars("    MOV ") \o codegen.var_to_register[TranslatedCall.result]
                \o Chars(", RAX") >>)

\* C25 as the code has it: for a TAC call `[r =] call f, n` the code
\* generator emits `CALL f`, then `ADD SP, #(4*n)` if n > 0 and no ADD line
\* if n = 0, then `MOV r, RAX` if the call has a result, in this order with
\* nothing in between.
C25_CallSequenceAmended ==
    CallTranslated =>
        /\ Len(Code) >= Len(CallLinesCleaningUp)
        /\ SubSeq(Code, Len(Code) - Len(CallLinesCleaningUp) + 1, Len(Code))
              = CallLinesCleaningUp
        /\ Code[Len(Code) - Len(CallLinesCleaningUp)] # CallLinesCleaningUp[1]


--------------------------------------------------------------------------
(* Declarations at top level and the TAC list.                             *)

\* the instructions of the TAC list that lie in no function
OutsideFunctions ==
    {i \in 1..Len(Tac) :
        /\ Tac[i].kind \notin {"TACFunctionStart", "TACFunctionEnd"}
        /\ Enclosing(i) = 0}

\* C26 (top-level variables emit nothing): a variable declaration at top
\* level of the program, with or without an initializer, contributes no TAC
\* instruction: every instruction of the TAC list lies between a
\* `function f:` and its matching `end function f`.
C26_GlobalsEmitNothing == OutsideFunctions = {}

\* the IR generator has visited a variable declaration with an initializer
\* at top level of the program
C26_Witness ==
    /\ \E i \in 1..Len(ast) : i <= irIdx /\ ast[i].kind = "VarDecl"
                              /\ ast[i].initializer # None
    /\ OutsideFunctions # {}


--------------------------------------------------------------------------
(* The params pending at a call, checked under SpecGen *)

\* the params pending after the first i instructions of the TAC list, the
\* latest first: a param pushes its value, a call of n arguments pops n
RECURSIVE Pending(_)
Pending(i) ==
    IF i = 0 THEN <<>>
    ELSE IF Tac[i].kind = "TACParam" THEN <<Tac[i].arg>> \o Pending(i - 1)
    ELSE IF Tac[i].kind = "TACCall"
    THEN SubSeq(Pending(i - 1), Tac[i].n_args + 1, Len(Pending(i - 1)))
    ELSE Pending(i - 1)

\* the generator after the arguments of call from the last one down to the
\* i-th are lowered from g, each followed by its param
RECURSIVE ArgumentsFrom(_, _, _)
ArgumentsFrom(g, call, i) ==
    IF i > Len(call.arguments) THEN g
    ELSE Passed(ir_visit_expression(ArgumentsFrom(g, call, i + 1), call.arguments[i]))

\* the values of the arguments of call, lowered from g, the first one first
OwnValues(g, call) ==
    [i \in 1..Len(call.arguments) |->
        ir_visit_expression(ArgumentsFrom(g, call, i + 1), call.arguments[i]).name]

\* where the call instruction of call, lowered from g, lies in the TAC list
CallAt(g, call) == Len(ArgumentsFrom(g, call, 1).instructions) + 1

\* the call instruction of call, lowered from g, finds the values of its own
\* arguments on top of the pending params, the first argument topmost
OwnArgumentsOnTop(g, call) ==
    /\ Tac[CallAt(g, call)].kind = "TACCall"
    /\ Tac[CallAt(g, call)].function = call.name
    /\ SubSeq(Pending(CallAt(g, call) - 1), 1, Len(call.arguments)) = OwnValues(g, call)

\* how many instructions the TAC list has after the first j statements of
\* the body of the first declaration, a function
AfterStatement(j) ==
    Len(IrVisitStatements(emit(IrFresh, TACFunctionStart(ast[1].name)),
                          SubSeq(ast[1].body.statements, 1, j), 1).instructions)

\* the instructions a statement ends right before: where a loop or an if
\* jumps or places a label after a statement, and where a function ends
ClosesStatement == OfKinds({"TACGoto", "TACLabel", "TACFunctionEnd"})

\* C27 (params and calls as a stack): reading each `param` as a push and
\* each `call f, n` as a pop of n entries, at least n params are pending at
\* every call; the n topmost at a call are the values of that call's own
\* arguments, the first argument on top, also for a call that is itself an
\* argument of a call; and no param is pending after a complete statement
\* or at an `end function`.
C27_ParamStack ==
    /\ \A i \in OfKinds({"TACCall"}) : Len(Pending(i - 1)) >= Tac[i].n_args
    /\ \A i \in OfKinds({"TACFunctionEnd"}) : Pending(i) = <<>>
    /\ \A i \in ClosesStatement : Pending(i - 1) = <<>>
    /\ irIdx >= 1 /\ ast[1].kind = "FunctionDecl" /\ ast[1].body # None =>
          \A j \in 0..Len(ast[1].body.statements) : Pending(AfterStatement(j)) = <<>>
    /\ CallLowered =>
          /\ OwnArgumentsOnTop(BeforeFor, TheCall)
          /\ \A i \in 1..Len(TheCall.arguments) :
                TheCall.arguments[i].kind = "FunctionCall" =>
                    OwnArgumentsOnTop(ArgumentsFrom(BeforeFor, TheCall, i + 1),
                                      TheCall.arguments[i])

\* the generator has lowered a call of three arguments whose second one is
\* a call of two arguments: at the inner call three params are pending, at
\* the outer one the results of the two inner calls lie above x
C27_Witness ==
    /\ CallLowered
    /\ Len(TheCall.arguments) = 3
    /\ TheCall.arguments[2].kind = "FunctionCall"
    /\ Len(TheCall.arguments[2].arguments) = 2
    /\ \E i \in OfKinds({"TACCall"}) :
          /\ Tac[i].n_args = 2
          /\ Pending(i - 1) = <<Chars("1"), N_x, N_x>>
    /\ Pending(CallAt(BeforeFor, TheCall) - 1) = <<Chars("t1"), Chars("t0"), N_x>>
    /\ Pending(CallAt(BeforeFor, TheCall)) = <<>>


--------------------------------------------------------------------------
(* A forward declaration and its definition, checked under SpecSem *)

\* the program is a forward declaration of a function followed by the
\* definition of a function of the same name
ForwardThenDefinition ==
    /\ Len(ast) = 2
    /\ ast[1].kind = "FunctionDecl" /\ ast[1].body = None
    /\ ast[2].kind = "FunctionDecl" /\ ast[2].body # None
    /\ ast[1].name = ast[2].name

\* the analyzer after visiting the definition on its own
DefinitionAlone == VisitDeclaration(SemFresh, ast[2])

\* C28 (forward declaration, then definition): the forward declaration and
\* the definition both declare f in the global frame, so the visit of the
\* definition records "Variable 'f' already declared in this scope" and
\* analyze raises; the parameters and the body of the definition are still
\* walked, and the errors they give on their own are recorded after it.
C28_ForwardDeclarationRefused ==
    ForwardThenDefinition =>
        /\ semIdx = 1 => analyzer.errors = <<>>
        /\ semIdx = 2 =>
              /\ analyzer.errors = <<AlreadyDeclared(ast[2].name)>> \o DefinitionAlone.errors
              /\ analyzer.visited = 1 + DefinitionAlone.visited
              /\ Len(analyzer.scopes) = 1
        /\ AnalyzeFinished =>
              /\ semIdx = 2
              /\ semState = "raised"
              /\ semRaised # None

\* analyze has raised on a forward declaration followed by a definition
\* whose body gave an error of its own
C28_Witness ==
    /\ ForwardThenDefinition
    /\ semState = "raised"
    /\ Len(analyzer.errors) >= 2
    /\ analyzer.errors[1] = AlreadyDeclared(ast[2].name)
    /\ analyzer.visited >= 3


--------------------------------------------------------------------------
(* What optimize deletes, checked under SpecGen *)

\* a line optimize is to keep: any line but a MOV of an operand to itself
NotMovToItself(asm_line) == ~MovToItself(asm_line)

\* C29 (optimize only deletes moves to themselves): optimize changes
\* assembly_code only by deleting the lines that are a MOV instruction whose
\* destination and source are the same operand; every other line, whatever
\* text its operands contain, is kept in its original relative order, and
\* the number of eliminations reported is the number of lines deleted.
C29_OptimizeOnlyDeletesSelfMoves ==
    [][genState = "generated" /\ genState' = "optimized" =>
          /\ Code' = SelectSeq(Code, NotMovToItself)
          /\ optimizations_made' = Len(Code) - Len(Code')]_vars

\* optimize has run on the assembly of a call that passes a string, and the
\* PUSH of the string is no longer a line of the assembly
C29_Witness ==
    /\ genState = "optimized"
    /\ optimizations_made >= 1
    /\ \E i \in OfKinds({"TACParam"}) :
          /\ is_constant(Tac[i].arg)
          /\ CountLines(Chars("    PUSH #") \o Tac[i].arg) = 0


--------------------------------------------------------------------------
(* Generated names and the names of the program, checked under SpecGen *)

\* the names of the parameters of a function
ParameterNames(node) == {node.parameters[i].name : i \in 1..Len(node.parameters)}

\* the names the declarations inside a node declare as variables
RECURSIVE Declared(_)
Declared(node) ==
    IF node = None THEN {}
    ELSE IF node.kind = "VarDecl" THEN {node.name}
    ELSE IF node.kind = "FunctionDecl" THEN ParameterNames(node) \cup Declared(node.body)
    ELSE IF node.kind = "CompoundStmt"
    THEN UNION {Declared(node.statements[i]) : i \in 1..Len(node.statements)}
    ELSE IF node.kind = "IfStmt" THEN Declared(node.then_stmt) \cup Declared(node.else_stmt)
    ELSE IF node.kind = "WhileStmt" THEN Declared(node.body)
    ELSE IF node.kind = "ForStmt" THEN Declared(node.init) \cup Declared(node.body)
    ELSE {}

\* the names of the variables and parameters of the program: the declared
\* ones and those an expression reads or assigns
ProgramVariables ==
    UNION {Declared(ast[i]) : i \in 1..Len(ast)}
    \cup {NameUsesAll(ast, 1)[i][2] :
             i \in {u \in 1..Len(NameUsesAll(ast, 1)) :
                       NameUsesAll(ast, 1)[u][1] \in {"Identifier", "Assignment"}}}

\* the names of the functions of the program
ProgramFunctions ==
    {ast[i].name : i \in {d \in 1..Len(ast) : ast[d].kind = "FunctionDecl"}}

\* the temporaries of the TAC list, taken from new_temp
TempsTaken == {Tac[i].result : i \in TakesTemp}

\* the labels of the TAC list, taken from new_label
LabelsTaken == {Tac[i].label : i \in OfKinds({"TACLabel"})}

\* C30 (generated names never alias user names): in the TAC of a program no
\* temporary t<k> returned by new_temp is the name of a variable or
\* parameter of the program, and no label L<k> returned by new_label is the
\* name of a function of the program.
C30_GeneratedNamesApart ==
    /\ TempsTaken \cap ProgramVariables = {}
    /\ LabelsTaken \cap ProgramFunctions = {}

\* the TAC list assigns the result of a temporary to the user's variable of
\* the same name
C30_Witness ==
    \E i \in TakesTemp :
        /\ Tac[i].result \in ProgramVariables
        /\ i < Len(Tac)
        /\ Tac[i + 1] = TACAssign(Tac[i].result, Tac[i].result)

\* the TAC list holds a label that is the name of the function around it
LabelNamedAsFunction ==
    \E i \in OfKinds({"TACLabel"}) :
        /\ Enclosing(i) # 0
        /\ Tac[Enclosing(i)].name = Tac[i].label

==========================================================================
